---- MODULE Spec2Model ----
(***************************************************************************)
(* A model of darth-infra's configuration core: the ProjectConfig          *)
(* dataclasses and their validating constructor (config/models.py), the    *)
(* derived-value resolvers, the TOML codec (config/loader.py) and the      *)
(* scaffold generator (scaffold/generator.py).                             *)
(*                                                                         *)
(* Conventions.  A Python str that the code inspects or concatenates is a  *)
(* sequence of one-character strings (Text).  Identifiers that the code    *)
(* only compares or uses as dictionary keys (service, bucket, secret and   *)
(* environment names, TOML keys) are TLA+ strings; NameChars gives their   *)
(* characters where the code formats them into text.  Optional values are  *)
(* None == <<>> or Some(x) == <<x>>.  A dict is the sequence of its        *)
(* [k, v] items in insertion order.  Python objects that are shared by     *)
(* reference between a caller and a ProjectConfig (the environments list,  *)
(* the ServiceConfig objects) are one variable, so an in-place mutation is *)
(* seen by both.                                                           *)
(***************************************************************************)
EXTENDS Integers, Sequences, FiniteSets, TLC

VARIABLES
    config,      \* the field objects handed to ProjectConfig(...), as they are now
    supplied,    \* the same fields as they were when the caller supplied them
    status,      \* "draft" | "valid" (constructed) | "error" (ValueError raised)
    raised,      \* which check of __post_init__ raised, "" when none
    call,        \* the last resolver call: [op, args, result]
    disk,        \* the paths that exist under output_dir (<<>> is output_dir)
    gen,         \* the generate_project call: its state, argument and position
    world,       \* what generate_project reads besides its arguments
    toml,        \* the document dump_config returned, None before any dump
    loaded,      \* the outcome of load_config on that document
    finder,      \* the find_config call: the directories, its position, its result
    wizard,      \* the wizard: its shared state dict and the screen on display
    cloud,       \* the CloudFormation stacks and the last CLI command's outcome
    race         \* two generate_project calls on one output_dir and its files

vars == <<config, supplied, status, raised, call, disk, gen, world, toml, loaded,
          finder, wizard, cloud, race>>
projVars == <<config, supplied, status, raised>>
genVars == <<disk, gen, world>>
codecVars == <<toml, loaded>>
toolVars == <<finder, wizard, cloud, race>>

----------------------------------------------------------------------------
(* Values *)

None == <<>>
Some(x) == <<x>>
IsNone(o) == Len(o) = 0
Val(o) == o[1]

Range(s) == {s[i] : i \in 1..Len(s)}

\* Python truthiness of an optional str: None and "" are falsy.
TruthyStr(o) == ~IsNone(o) /\ Len(Val(o)) > 0

\* SecretSource, AlbMode, LaunchType, Architecture: the enums' values.
GENERATE == "generate"
ENV == "env"
SHARED == "shared"
DEDICATED == "dedicated"
FARGATE == "fargate"
EC2 == "ec2"
X86_64 == "x86_64"
ARM64 == "arm64"

PROD == "prod"

----------------------------------------------------------------------------
(* detect_architecture *)

ARM_PREFIXES ==
    { <<"a","1">>, <<"t","4","g">>, <<"m","6","g">>, <<"m","6","g","d">>,
      <<"m","7","g">>, <<"m","7","g","d">>, <<"c","6","g">>,
      <<"c","6","g","d">>, <<"c","6","g","n">>, <<"c","7","g">>,
      <<"c","7","g","d">>, <<"c","7","g","n">>, <<"r","6","g">>,
      <<"r","6","g","d">>, <<"r","7","g">>, <<"r","7","g","d">>,
      <<"x","2","g","d">>, <<"i","m","4","g","n">>,
      <<"i","s","4","g","e","n">>, <<"g","5","g">>,
      <<"h","p","c","7","g">> }

\* str.split(sep) for a one-character separator: the pieces between the
\* separators, scanning left to right; always at least one piece.
RECURSIVE SplitFrom(_, _, _, _)
SplitFrom(s, sep, i, piece) ==
    IF i > Len(s) THEN <<piece>>
    ELSE IF s[i] = sep THEN <<piece>> \o SplitFrom(s, sep, i + 1, <<>>)
    ELSE SplitFrom(s, sep, i + 1, Append(piece, s[i]))

Split(s, sep) == SplitFrom(s, sep, 1, <<>>)

\* Mutant: the table is matched as a set of prefixes of the whole string.
detect_architecture_startswith(instance_type) ==
    IF \E p \in ARM_PREFIXES :
           /\ Len(p) <= Len(instance_type)
           /\ SubSeq(instance_type, 1, Len(p)) = p
    THEN ARM64 ELSE X86_64

\* instance_type.split(".")[0] indexes the list split returns: an empty list
\* would raise IndexError.
detect_architecture(instance_type) ==
    LET parts == Split(instance_type, ".") IN
    IF Len(parts) = 0 THEN "IndexError"
    ELSE IF parts[1] \in ARM_PREFIXES THEN ARM64 ELSE X86_64

----------------------------------------------------------------------------
(* Text literals *)

TXT_Dockerfile == <<"D","o","c","k","e","r","f","i","l","e">>
TXT_dot == <<".">>
TXT_health == <<"/","h","e","a","l","t","h">>
TXT_us_east_1 == <<"u","s","-","e","a","s","t","-","1">>
TXT_vpc == <<"a","r","t","s","h","u","m","r","c","-","p","r","o","d","-","s","t","a","n","d","a","r","d">>
TXT_t4g_micro == <<"t","4","g",".","m","i","c","r","o">>
TXT_t3_medium == <<"t","3",".","m","e","d","i","u","m">>
TXT_15 == <<"1","5">>
TXT_xvdf == <<"/","d","e","v","/","x","v","d","f">>
TXT_gp3 == <<"g","p","3">>
TXT_ext4 == <<"e","x","t","4">>
TXT_data == <<"/","d","a","t","a">>
TXT_app == <<"a","p","p">>
TXT_a_io == <<"a",".","i","o">>
TXT_d_io == <<"d",".","i","o">>
TXT_db == <<"d","b">>
TXT_empty == <<>>

\* The characters of the identifiers the model uses.
NameChars(n) ==
    CASE n = "prod" -> <<"p","r","o","d">>
      [] n = "dev" -> <<"d","e","v">>
      [] n = "stg" -> <<"s","t","g">>
      [] n = "web" -> <<"w","e","b">>
      [] n = "api" -> <<"a","p","i">>
      [] n = "media" -> <<"m","e","d","i","a">>
      [] n = "KEY" -> <<"K","E","Y">>
      [] n = "vol" -> <<"v","o","l">>
      [] n = "nofile" -> <<"n","o","f","i","l","e">>

----------------------------------------------------------------------------
(* The dataclasses, with their field defaults *)

SecretConfig(name) ==
    [name |-> name, source |-> GENERATE, length |-> 50, generate_once |-> TRUE]

S3BucketConfig(name) ==
    [name |-> name, public_read |-> FALSE, cloudfront |-> FALSE, cors |-> FALSE]

RdsConfig(database_name) ==
    [database_name |-> database_name, expose_to |-> <<>>,
     instance_type |-> TXT_t4g_micro, allocated_storage_gb |-> 20,
     engine_version |-> TXT_15, backup_retention_days |-> 7]

UlimitConfig(name, soft_limit, hard_limit) ==
    [name |-> name, soft_limit |-> soft_limit, hard_limit |-> hard_limit]

EbsVolumeConfig(name, size_gb, mount_path) ==
    [name |-> name, size_gb |-> size_gb, mount_path |-> mount_path,
     device_name |-> TXT_xvdf, volume_type |-> TXT_gp3,
     filesystem_type |-> TXT_ext4]

AlbConfig ==
    [mode |-> SHARED, shared_alb_name |-> TXT_empty, certificate_arn |-> None]

ServiceConfig(name) ==
    [name |-> name, dockerfile |-> TXT_Dockerfile, build_context |-> TXT_dot,
     image |-> None, port |-> Some(8000), health_check_path |-> TXT_health,
     cpu |-> 256, memory_mib |-> 512, desired_count |-> 1, command |-> None,
     domain |-> None, secrets |-> <<>>, s3_access |-> <<>>,
     environment_variables |-> <<>>, ulimits |-> <<>>, enable_exec |-> TRUE,
     launch_type |-> FARGATE, ec2_instance_type |-> None,
     architecture |-> None, user_data_script |-> None, ebs_volumes |-> <<>>,
     enable_service_discovery |-> FALSE]

EnvironmentOverride ==
    [domain_overrides |-> <<>>, instance_type_override |-> None,
     ec2_instance_type_override |-> <<>>]

\* The fields of a ProjectConfig, before __post_init__ has run.
ProjectConfig(project_name, services) ==
    [project_name |-> project_name, services |-> services,
     environments |-> <<PROD>>, aws_region |-> TXT_us_east_1,
     vpc_name |-> TXT_vpc, rds |-> None, s3_buckets |-> <<>>,
     alb |-> AlbConfig, secrets |-> <<>>, environment_overrides |-> <<>>,
     tags |-> <<>>]

\* dict.get(key): the value of the item with that key, None when absent.
DictHas(d, key) == \E i \in 1..Len(d) : d[i].k = key
DictGet(d, key) ==
    IF DictHas(d, key) THEN Some(d[CHOOSE i \in 1..Len(d) : d[i].k = key].v)
    ELSE None

----------------------------------------------------------------------------
(* ProjectConfig.__post_init__ *)

\* list.remove(x): the list without the first occurrence of x.
RemoveFirst(s, x) ==
    LET i == CHOOSE j \in 1..Len(s) : s[j] = x /\ \A h \in 1..(j - 1) : s[h] # x
    IN  SubSeq(s, 1, i - 1) \o SubSeq(s, i + 1, Len(s))

\* Mutant: "prod" changes places with the first name.
ProdFirst_swap(environments) ==
    LET i == CHOOSE j \in 1..Len(environments) :
                 environments[j] = PROD /\ \A h \in 1..(j - 1) : environments[h] # PROD
    IN  [environments EXCEPT ![1] = PROD, ![i] = environments[1]]

\* Mutant: every occurrence of "prod" is removed before it is put first.
ProdFirst_dedup(environments) ==
    <<PROD>> \o SelectSeq(environments, LAMBDA e : e # PROD)

\* environments after lines 288-290 ("prod" is known to be in the list).
ProdFirst(environments) ==
    IF environments[1] # PROD
    THEN <<PROD>> \o RemoveFirst(environments, PROD)
    ELSE environments

\* len(names) != len(set(names))
HasDuplicates(names) == Len(names) # Cardinality(Range(names))

Names(items) == [i \in 1..Len(items) |-> items[i].name]

\* Mutant: only a missing instance type is refused, not an empty one.
MissingInstanceType_isNone(svc) ==
    svc.launch_type = EC2 /\ IsNone(svc.ec2_instance_type)

MissingInstanceType(svc) ==
    svc.launch_type = EC2 /\ ~TruthyStr(svc.ec2_instance_type)

FargateWithEbs(svc) ==
    svc.launch_type = FARGATE /\ Len(svc.ebs_volumes) > 0

\* Mutant: the architecture is derived even when one was given.
AutoDetects_overwrite(svc) ==
    svc.launch_type = EC2 /\ TruthyStr(svc.ec2_instance_type)

\* Mutant: the architecture is derived whatever the launch type.
AutoDetects_anyLaunch(svc) ==
    TruthyStr(svc.ec2_instance_type) /\ IsNone(svc.architecture)

AutoDetects(svc) ==
    /\ svc.launch_type = EC2
    /\ TruthyStr(svc.ec2_instance_type)
    /\ IsNone(svc.architecture)

\* One pass of the loop body of lines 296-314 over services[i..]: the
\* services as the loop leaves them and the error it raised, "" when none.
RECURSIVE ServiceLoop(_, _)
ServiceLoop(services, i) ==
    IF i > Len(services) THEN [services |-> services, raised |-> ""]
    ELSE LET svc == services[i] IN
         IF MissingInstanceType(svc)
         THEN [services |-> services, raised |-> "no ec2_instance_type"]
         ELSE IF FargateWithEbs(svc)
         THEN [services |-> services, raised |-> "ebs_volumes on fargate"]
         ELSE IF AutoDetects(svc)
         THEN ServiceLoop(
                  [services EXCEPT ![i].architecture =
                      Some(detect_architecture(Val(svc.ec2_instance_type)))],
                  i + 1)
         ELSE ServiceLoop(services, i + 1)

UnknownExposeTo(rds, service_names) ==
    /\ ~IsNone(rds)
    /\ \E i \in 1..Len(Val(rds).expose_to) :
           Val(rds).expose_to[i] \notin Range(service_names)

UnsupportedSecret(secret) ==
    secret.source = GENERATE /\ ~secret.generate_once

UnknownBucket(svc, bucket_names) ==
    \E i \in 1..Len(svc.s3_access) : svc.s3_access[i] \notin Range(bucket_names)

UnknownSecret(svc, secret_names) ==
    \E i \in 1..Len(svc.secrets) : svc.secrets[i] \notin Range(secret_names)

\* The first error of the loop of lines 334-345, "" when none.
RECURSIVE ReferenceLoop(_, _, _, _)
ReferenceLoop(services, bucket_names, secret_names, i) ==
    IF i > Len(services) THEN ""
    ELSE IF UnknownBucket(services[i], bucket_names) THEN "unknown S3 bucket"
    ELSE IF UnknownSecret(services[i], secret_names) THEN "unknown secret"
    ELSE ReferenceLoop(services, bucket_names, secret_names, i + 1)

\* __post_init__ on the fields c: the fields as it leaves them (the lists and
\* ServiceConfig objects are the caller's, mutated in place) and what it raised.
PostInit(c) ==
    IF PROD \notin Range(c.environments)
    THEN [fields |-> c, raised |-> "prod not in environments"]
    ELSE
    LET c1 == [c EXCEPT !.environments = ProdFirst(c.environments)]
        service_names == Names(c.services)
    IN
    IF HasDuplicates(service_names)
    THEN [fields |-> c1, raised |-> "service names not unique"]
    ELSE
    LET loop == ServiceLoop(c1.services, 1)
        c2 == [c1 EXCEPT !.services = loop.services]
        bucket_names == Names(c.s3_buckets)
        refs == ReferenceLoop(c2.services, bucket_names, Names(c.secrets), 1)
    IN
    IF loop.raised # "" THEN [fields |-> c2, raised |-> loop.raised]
    ELSE IF HasDuplicates(bucket_names)
    THEN [fields |-> c2, raised |-> "bucket names not unique"]
    ELSE IF UnknownExposeTo(c.rds, service_names)
    THEN [fields |-> c2, raised |-> "unknown expose_to service"]
    ELSE IF \E i \in 1..Len(c.secrets) : UnsupportedSecret(c.secrets[i])
    THEN [fields |-> c2, raised |-> "generate_once=false"]
    ELSE [fields |-> c2, raised |-> refs]

----------------------------------------------------------------------------
(* dump_config: the lines of the TOML document *)

\* A document is the sequence of its lines.  A line is a comment or blank
\* line, a [table] or [[array]] header with its dotted path, or key = value.
\* A value is an integer, a boolean, or text: the characters written after
\* "= " for a str field (quotes included), or the name itself for a quoted
\* identifier or enum value (names hold no character that needs escaping).
QUOTE == "\""
BACKSLASH == "\\"

Blank == [t |-> "blank"]
Comment == [t |-> "comment"]
Table(path) == [t |-> "table", path |-> path]
Array(path) == [t |-> "array", path |-> path]
KV(key, val) == [t |-> "kv", key |-> key, val |-> val]

\* f'"{text}"'
Quoted(text) == <<QUOTE>> \o text \o <<QUOTE>>
StrVal(text) == [k |-> "str", raw |-> Quoted(text)]
NameVal(name) == [k |-> "name", name |-> name]
NamesVal(names) == [k |-> "names", names |-> names]
PathVal(path) == [k |-> "path", path |-> path]
IntVal(n) == [k |-> "int", n |-> n]
\* str(b).lower()
BoolVal(b) == [k |-> "bool", b |-> b]
InlineVal(items) == [k |-> "inline", items |-> items]

\* _toml_escape: value.replace("\\", "\\\\").replace('"', '\\"')
RECURSIVE toml_escape(_)
toml_escape(value) ==
    IF Len(value) = 0 THEN <<>>
    ELSE (IF Head(value) \in {BACKSLASH, QUOTE}
          THEN <<BACKSLASH, Head(value)>>
          ELSE <<Head(value)>>) \o toml_escape(Tail(value))

When(cond, lines) == IF cond THEN lines ELSE <<>>

RECURSIVE Flatten(_)
Flatten(seqs) ==
    IF Len(seqs) = 0 THEN <<>> ELSE Head(seqs) \o Flatten(Tail(seqs))

\* Lines 202-215.
DumpProject(c) ==
    <<Comment, Blank, Table(<<"project">>),
      KV("name", StrVal(c.project_name)),
      KV("aws_region", StrVal(c.aws_region)),
      KV("vpc_name", StrVal(c.vpc_name)),
      KV("environments", NamesVal(c.environments))>>
    \o When(Len(c.tags) > 0,
            <<Blank, Table(<<"project", "tags">>)>>
            \o [i \in 1..Len(c.tags) |-> KV(c.tags[i].k, StrVal(c.tags[i].v))])
    \o <<Blank>>

\* Lines 259-264.
DumpUlimit(ul) ==
    <<Blank, Array(<<"services", "ulimits">>),
      KV("name", NameVal(ul.name)),
      KV("soft_limit", IntVal(ul.soft_limit)),
      KV("hard_limit", IntVal(ul.hard_limit))>>

\* Lines 265-273.
DumpVolume(vol) ==
    <<Blank, Array(<<"services", "ebs_volumes">>),
      KV("name", NameVal(vol.name)),
      KV("size_gb", IntVal(vol.size_gb)),
      KV("mount_path", StrVal(vol.mount_path)),
      KV("device_name", StrVal(vol.device_name)),
      KV("volume_type", StrVal(vol.volume_type)),
      KV("filesystem_type", StrVal(vol.filesystem_type))>>

\* Mutant: a service without a port leaves no trace in the document.
DumpPort_silent(svc) ==
    IF ~IsNone(svc.port) THEN <<KV("port", IntVal(Val(svc.port)))>>
    ELSE <<>>

\* Lines 224-227.
DumpPort(svc) ==
    IF ~IsNone(svc.port) THEN <<KV("port", IntVal(Val(svc.port)))>>
    ELSE <<Comment>>

\* Lines 218-274.
DumpService(svc) ==
    <<Array(<<"services">>),
      KV("name", NameVal(svc.name)),
      KV("dockerfile", StrVal(svc.dockerfile)),
      KV("build_context", StrVal(svc.build_context))>>
    \o When(TruthyStr(svc.image), <<KV("image", StrVal(svc.image[1]))>>)
    \o DumpPort(svc)
    \o <<KV("health_check_path", StrVal(svc.health_check_path)),
         KV("cpu", IntVal(svc.cpu)),
         KV("memory_mib", IntVal(svc.memory_mib)),
         KV("desired_count", IntVal(svc.desired_count))>>
    \o When(TruthyStr(svc.command), <<KV("command", StrVal(svc.command[1]))>>)
    \o When(TruthyStr(svc.domain), <<KV("domain", StrVal(svc.domain[1]))>>)
    \o <<KV("launch_type", NameVal(svc.launch_type))>>
    \o When(TruthyStr(svc.ec2_instance_type),
            <<KV("ec2_instance_type", StrVal(svc.ec2_instance_type[1]))>>)
    \o When(~IsNone(svc.architecture),
            <<KV("architecture", NameVal(svc.architecture[1]))>>)
    \o When(TruthyStr(svc.user_data_script),
            <<KV("user_data_script", PathVal(svc.user_data_script[1]))>>)
    \o When(Len(svc.secrets) > 0, <<KV("secrets", NamesVal(svc.secrets))>>)
    \o When(Len(svc.s3_access) > 0, <<KV("s3_access", NamesVal(svc.s3_access))>>)
    \o When(Len(svc.environment_variables) > 0,
            <<KV("environment_variables",
                 InlineVal([i \in 1..Len(svc.environment_variables) |->
                     [k |-> svc.environment_variables[i].k,
                      raw |-> Quoted(toml_escape(svc.environment_variables[i].v))]]))>>)
    \o <<KV("enable_exec", BoolVal(svc.enable_exec)),
         KV("enable_service_discovery", BoolVal(svc.enable_service_discovery))>>
    \o Flatten([i \in 1..Len(svc.ulimits) |-> DumpUlimit(svc.ulimits[i])])
    \o Flatten([i \in 1..Len(svc.ebs_volumes) |-> DumpVolume(svc.ebs_volumes[i])])
    \o <<Blank>>

\* Mutant: the database section is left out of the document.
DumpRds_omitted(rds) == <<>>

\* Lines 276-285.
DumpRds(rds) ==
    When(~IsNone(rds),
         <<Table(<<"rds">>),
           KV("database_name", StrVal(rds[1].database_name)),
           KV("instance_type", StrVal(rds[1].instance_type)),
           KV("allocated_storage_gb", IntVal(rds[1].allocated_storage_gb)),
           KV("expose_to", NamesVal(rds[1].expose_to)),
           KV("engine_version", StrVal(rds[1].engine_version)),
           KV("backup_retention_days", IntVal(rds[1].backup_retention_days)),
           Blank>>)

\* Lines 287-293.
DumpBucket(bucket) ==
    <<Array(<<"s3_buckets">>),
      KV("name", NameVal(bucket.name)),
      KV("public_read", BoolVal(bucket.public_read)),
      KV("cloudfront", BoolVal(bucket.cloudfront)),
      KV("cors", BoolVal(bucket.cors)),
      Blank>>

\* Lines 295-300.
DumpAlb(alb) ==
    <<Table(<<"alb">>),
      KV("mode", NameVal(alb.mode)),
      KV("shared_alb_name", StrVal(alb.shared_alb_name))>>
    \o When(TruthyStr(alb.certificate_arn),
            <<KV("certificate_arn", StrVal(alb.certificate_arn[1]))>>)
    \o <<Blank>>

\* Lines 302-308.
DumpSecret(secret) ==
    <<Array(<<"secrets">>),
      KV("name", NameVal(secret.name)),
      KV("source", NameVal(secret.source)),
      KV("length", IntVal(secret.length)),
      KV("generate_once", BoolVal(secret.generate_once)),
      Blank>>

\* Lines 310-326, in the order the code appends them.
DumpOverride(env_name, override) ==
    <<Table(<<"environments", env_name>>)>>
    \o When(Len(override.domain_overrides) > 0,
            <<Blank, Table(<<"environments", env_name, "domain_overrides">>)>>
            \o [i \in 1..Len(override.domain_overrides) |->
                   KV(override.domain_overrides[i].k,
                      StrVal(override.domain_overrides[i].v))])
    \o When(TruthyStr(override.instance_type_override),
            <<KV("instance_type_override",
                 StrVal(override.instance_type_override[1]))>>)
    \o When(Len(override.ec2_instance_type_override) > 0,
            <<Blank, Table(<<"environments", env_name, "ec2_instance_type_override">>)>>
            \o [i \in 1..Len(override.ec2_instance_type_override) |->
                   KV(override.ec2_instance_type_override[i].k,
                      StrVal(override.ec2_instance_type_override[i].v))])
    \o <<Blank>>

\* dump_config(config): lines 198-328.
dump_config(c) ==
    DumpProject(c)
    \o Flatten([i \in 1..Len(c.services) |-> DumpService(c.services[i])])
    \o DumpRds(c.rds)
    \o Flatten([i \in 1..Len(c.s3_buckets) |-> DumpBucket(c.s3_buckets[i])])
    \o DumpAlb(c.alb)
    \o Flatten([i \in 1..Len(c.secrets) |-> DumpSecret(c.secrets[i])])
    \o Flatten([i \in 1..Len(c.environment_overrides) |->
           DumpOverride(c.environment_overrides[i].k, c.environment_overrides[i].v)])

----------------------------------------------------------------------------
(* tomllib.load: the tables, keys and values of a document *)

\* The control characters the one-letter escapes stand for.
Unescaped(ch) ==
    CASE ch = "t" -> "\t"
      [] ch = "n" -> "\n"
      [] ch = "r" -> "\r"
      [] ch = "f" -> "\f"
      [] ch = "b" -> "\\b"
      [] OTHER -> ch

\* What may follow a value on its line: spaces, then nothing or a comment.
RECURSIVE EndsLine(_, _)
EndsLine(raw, i) ==
    IF i > Len(raw) THEN TRUE
    ELSE IF raw[i] = " " THEN EndsLine(raw, i + 1)
    ELSE raw[i] = "#"

\* A basic string, read from the character after the opening quote: a
\* backslash escapes the next character, the first bare quote closes the
\* string.  \uXXXX escapes are outside the alphabet of the model.
RECURSIVE LexFrom(_, _, _)
LexFrom(raw, i, acc) ==
    IF i > Len(raw) THEN [ok |-> FALSE, text |-> acc]
    ELSE IF raw[i] = QUOTE THEN [ok |-> EndsLine(raw, i + 1), text |-> acc]
    ELSE IF raw[i] = BACKSLASH
    THEN IF i + 1 <= Len(raw)
            /\ raw[i + 1] \in {QUOTE, BACKSLASH, "t", "n", "r", "f", "b"}
         THEN LexFrom(raw, i + 2, Append(acc, Unescaped(raw[i + 1])))
         ELSE [ok |-> FALSE, text |-> acc]
    ELSE LexFrom(raw, i + 1, Append(acc, raw[i]))

LexBasicString(raw) ==
    IF Len(raw) > 0 /\ raw[1] = QUOTE THEN LexFrom(raw, 2, <<>>)
    ELSE [ok |-> FALSE, text |-> <<>>]

\* The Python value of a written value: [ok, v].
LexValue(val) ==
    CASE val.k = "str" ->
            LET r == LexBasicString(val.raw) IN [ok |-> r.ok, v |-> r.text]
      [] val.k = "inline" ->
            [ok |-> \A i \in 1..Len(val.items) :
                        LexBasicString(val.items[i].raw).ok,
             v |-> [i \in 1..Len(val.items) |->
                        [k |-> val.items[i].k,
                         v |-> LexBasicString(val.items[i].raw).text]]]
      [] val.k = "name" -> [ok |-> TRUE, v |-> val.name]
      [] val.k = "names" -> [ok |-> TRUE, v |-> val.names]
      [] val.k = "path" -> [ok |-> TRUE, v |-> val.path]
      [] val.k = "int" -> [ok |-> TRUE, v |-> val.n]
      [] val.k = "bool" -> [ok |-> TRUE, v |-> val.b]

\* A table is addressed by its resolved path: the names from the root, each
\* with the index of the array element it lies in (0 for a plain table).
\* Elements of the array `name` under `prefix` declared so far.
ElemCount(tables, prefix, name) ==
    Cardinality({i \in 1..Len(tables) :
        /\ Len(tables[i]) = Len(prefix) + 1
        /\ SubSeq(tables[i], 1, Len(prefix)) = prefix
        /\ tables[i][Len(prefix) + 1].n = name
        /\ tables[i][Len(prefix) + 1].i > 0})

\* A dotted header path resolves through the last element of each array.
RECURSIVE ResolveParents(_, _, _)
ResolveParents(tables, comps, prefix) ==
    IF Len(comps) = 0 THEN prefix
    ELSE ResolveParents(tables, Tail(comps),
             Append(prefix, [n |-> Head(comps),
                             i |-> ElemCount(tables, prefix, Head(comps))]))

Front(s) == SubSeq(s, 1, Len(s) - 1)
Last(s) == s[Len(s)]

EmptyDocument ==
    [cur |-> <<>>, entries |-> <<>>, tables |-> <<>>, err |-> FALSE]

\* One line of the document.
ParseLine(st, line) ==
    CASE line.t \in {"blank", "comment"} -> st
      [] line.t = "table" ->
            LET parent == ResolveParents(st.tables, Front(line.path), <<>>)
                path == Append(parent, [n |-> Last(line.path), i |-> 0])
            IN  IF \/ \E i \in 1..Len(st.tables) : st.tables[i] = path
                   \/ ElemCount(st.tables, parent, Last(line.path)) > 0
                   \/ \E i \in 1..Len(st.entries) :
                          /\ st.entries[i].path = parent
                          /\ st.entries[i].key = Last(line.path)
                THEN [st EXCEPT !.err = TRUE]
                ELSE [st EXCEPT !.cur = path, !.tables = Append(@, path)]
      [] line.t = "array" ->
            LET parent == ResolveParents(st.tables, Front(line.path), <<>>)
                count == ElemCount(st.tables, parent, Last(line.path))
                path == Append(parent, [n |-> Last(line.path), i |-> count + 1])
            IN  IF \/ \E i \in 1..Len(st.tables) :
                          st.tables[i] = Append(parent, [n |-> Last(line.path), i |-> 0])
                   \/ \E i \in 1..Len(st.entries) :
                          /\ st.entries[i].path = parent
                          /\ st.entries[i].key = Last(line.path)
                THEN [st EXCEPT !.err = TRUE]
                ELSE [st EXCEPT !.cur = path, !.tables = Append(@, path)]
      [] line.t = "kv" ->
            LET r == LexValue(line.val) IN
            IF \/ ~r.ok
               \/ \E i \in 1..Len(st.entries) :
                      /\ st.entries[i].path = st.cur
                      /\ st.entries[i].key = line.key
               \/ \E i \in 1..Len(st.tables) :
                      /\ Len(st.tables[i]) > Len(st.cur)
                      /\ SubSeq(st.tables[i], 1, Len(st.cur)) = st.cur
                      /\ st.tables[i][Len(st.cur) + 1].n = line.key
            THEN [st EXCEPT !.err = TRUE]
            ELSE [st EXCEPT !.entries =
                      Append(@, [path |-> st.cur, key |-> line.key, v |-> r.v])]

RECURSIVE ParseLines(_, _)
ParseLines(st, lines) ==
    IF Len(lines) = 0 \/ st.err THEN st
    ELSE ParseLines(ParseLine(st, Head(lines)), Tail(lines))

\* tomllib.load(f): the document's tables and entries, or TOMLDecodeError.
toml_load(lines) == ParseLines(EmptyDocument, lines)

----------------------------------------------------------------------------
(* load_config: from the parsed document to a ProjectConfig *)

\* The dict at a resolved path: raw[key], raw.get(key), raw.get(key, default)
\* and, for a sub-table, its items in document order.
HasKey(doc, path, key) ==
    \E i \in 1..Len(doc.entries) :
        doc.entries[i].path = path /\ doc.entries[i].key = key

Subscript(doc, path, key) ==
    doc.entries[CHOOSE i \in 1..Len(doc.entries) :
                    doc.entries[i].path = path /\ doc.entries[i].key = key].v

GetOr(doc, path, key, default) ==
    IF HasKey(doc, path, key) THEN Subscript(doc, path, key) ELSE default

Get(doc, path, key) ==
    IF HasKey(doc, path, key) THEN Some(Subscript(doc, path, key)) ELSE None

Items(doc, path) ==
    LET own == SelectSeq(doc.entries, LAMBDA e : e.path = path)
    IN  [i \in 1..Len(own) |-> [k |-> own[i].key, v |-> own[i].v]]

\* Truthiness of the dict at a path: it has a key or a sub-table.
NonEmptyTable(doc, path) ==
    \/ \E i \in 1..Len(doc.entries) : doc.entries[i].path = path
    \/ \E i \in 1..Len(doc.tables) :
        /\ Len(doc.tables[i]) > Len(path)
        /\ SubSeq(doc.tables[i], 1, Len(path)) = path

\* The names of the sub-tables of a table (the keys whose value is a dict, not
\* a list of tables), in order of first appearance.
RECURSIVE SubTablesFrom(_, _, _, _)
SubTablesFrom(tables, path, i, seen) ==
    IF i > Len(tables) THEN seen
    ELSE IF /\ Len(tables[i]) > Len(path)
            /\ SubSeq(tables[i], 1, Len(path)) = path
            /\ tables[i][Len(path) + 1].i = 0
            /\ tables[i][Len(path) + 1].n \notin Range(seen)
         THEN SubTablesFrom(tables, path, i + 1,
                            Append(seen, tables[i][Len(path) + 1].n))
         ELSE SubTablesFrom(tables, path, i + 1, seen)

SubTables(doc, path) == SubTablesFrom(doc.tables, path, 1, <<>>)

At(path, name, i) == Append(path, [n |-> name, i |-> i])

\* Lines 103-113: the subscripted keys raise KeyError when missing.
ParseVolume(doc, path) ==
    IF \E key \in {"name", "size_gb", "mount_path"} : ~HasKey(doc, path, key)
    THEN [raised |-> "KeyError"]
    ELSE [raised |-> "",
          v |-> [name |-> Subscript(doc, path, "name"),
                 size_gb |-> Subscript(doc, path, "size_gb"),
                 mount_path |-> Subscript(doc, path, "mount_path"),
                 device_name |-> GetOr(doc, path, "device_name", TXT_xvdf),
                 volume_type |-> GetOr(doc, path, "volume_type", TXT_gp3),
                 filesystem_type |-> GetOr(doc, path, "filesystem_type", TXT_ext4)]]

\* Lines 114-122.
ParseUlimit(doc, path) ==
    IF \E key \in {"name", "soft_limit", "hard_limit"} : ~HasKey(doc, path, key)
    THEN [raised |-> "KeyError"]
    ELSE [raised |-> "",
          v |-> [name |-> Subscript(doc, path, "name"),
                 soft_limit |-> Subscript(doc, path, "soft_limit"),
                 hard_limit |-> Subscript(doc, path, "hard_limit")]]

\* A list comprehension over parsed elements: the first exception raised by
\* an element is the comprehension's.
Collect(each) ==
    LET bad == {i \in 1..Len(each) : each[i].raised # ""}
    IN  IF bad # {}
        THEN [raised |-> each[CHOOSE i \in bad : \A j \in bad : i <= j].raised]
        ELSE [raised |-> "", v |-> [i \in 1..Len(each) |-> each[i].v]]

\* The resolved paths of the elements of the array of tables `name`.
Elements(doc, path, name) ==
    [i \in 1..ElemCount(doc.tables, path, name) |-> At(path, name, i)]

\* _parse_service: the statements raise in the order 103 (ebs_volumes),
\* 115 (ulimits), 124 (Architecture), 126 (name), 142 (LaunchType).
parse_service(doc, path) ==
    LET ebs_volumes == Collect([i \in 1..Len(Elements(doc, path, "ebs_volumes")) |->
                ParseVolume(doc, Elements(doc, path, "ebs_volumes")[i])])
        ulimits == Collect([i \in 1..Len(Elements(doc, path, "ulimits")) |->
                ParseUlimit(doc, Elements(doc, path, "ulimits")[i])])
        arch_str == Get(doc, path, "architecture")
        launch_type_str == GetOr(doc, path, "launch_type", FARGATE)
    IN  IF ebs_volumes.raised # "" THEN [raised |-> ebs_volumes.raised]
        ELSE IF ulimits.raised # "" THEN [raised |-> ulimits.raised]
        ELSE IF ~IsNone(arch_str) /\ Val(arch_str) \notin {"", X86_64, ARM64}
        THEN [raised |-> "ValueError"]
        ELSE IF ~HasKey(doc, path, "name") THEN [raised |-> "KeyError"]
        ELSE IF launch_type_str \notin {FARGATE, EC2}
        THEN [raised |-> "ValueError"]
        ELSE [raised |-> "",
              v |-> [name |-> Subscript(doc, path, "name"),
                     dockerfile |-> GetOr(doc, path, "dockerfile", TXT_Dockerfile),
                     build_context |-> GetOr(doc, path, "build_context", TXT_dot),
                     image |-> Get(doc, path, "image"),
                     port |-> Get(doc, path, "port"),
                     health_check_path |->
                         GetOr(doc, path, "health_check_path", TXT_health),
                     cpu |-> GetOr(doc, path, "cpu", 256),
                     memory_mib |-> GetOr(doc, path, "memory_mib", 512),
                     desired_count |-> GetOr(doc, path, "desired_count", 1),
                     command |-> Get(doc, path, "command"),
                     domain |-> Get(doc, path, "domain"),
                     secrets |-> GetOr(doc, path, "secrets", <<>>),
                     s3_access |-> GetOr(doc, path, "s3_access", <<>>),
                     environment_variables |->
                         GetOr(doc, path, "environment_variables", <<>>),
                     ulimits |-> ulimits.v,
                     enable_exec |-> GetOr(doc, path, "enable_exec", TRUE),
                     launch_type |-> launch_type_str,
                     ec2_instance_type |-> Get(doc, path, "ec2_instance_type"),
                     architecture |-> IF arch_str = Some("") THEN None
                                      ELSE arch_str,
                     user_data_script |-> Get(doc, path, "user_data_script"),
                     ebs_volumes |-> ebs_volumes.v,
                     enable_service_discovery |->
                         GetOr(doc, path, "enable_service_discovery", FALSE)]]

\* _parse_rds
parse_rds(doc, path) ==
    IF ~HasKey(doc, path, "database_name") THEN [raised |-> "KeyError"]
    ELSE [raised |-> "",
          v |-> [database_name |-> Subscript(doc, path, "database_name"),
                 instance_type |-> GetOr(doc, path, "instance_type", TXT_t4g_micro),
                 allocated_storage_gb |->
                     GetOr(doc, path, "allocated_storage_gb", 20),
                 expose_to |-> GetOr(doc, path, "expose_to", <<>>),
                 engine_version |-> GetOr(doc, path, "engine_version", TXT_15),
                 backup_retention_days |->
                     GetOr(doc, path, "backup_retention_days", 7)]]

\* _parse_s3
parse_s3(doc, path) ==
    IF ~HasKey(doc, path, "name") THEN [raised |-> "KeyError"]
    ELSE [raised |-> "",
          v |-> [name |-> Subscript(doc, path, "name"),
                 public_read |-> GetOr(doc, path, "public_read", FALSE),
                 cloudfront |-> GetOr(doc, path, "cloudfront", FALSE),
                 cors |-> GetOr(doc, path, "cors", FALSE)]]

\* Mutant: a document without a mode gets a dedicated load balancer.
parse_alb_dedicated(doc, path) ==
    LET mode_str == GetOr(doc, path, "mode", DEDICATED) IN
    IF mode_str \notin {SHARED, DEDICATED} THEN [raised |-> "ValueError"]
    ELSE [raised |-> "",
          v |-> [mode |-> mode_str,
                 shared_alb_name |-> GetOr(doc, path, "shared_alb_name", TXT_empty),
                 certificate_arn |-> Get(doc, path, "certificate_arn")]]

\* _parse_alb
parse_alb(doc, path) ==
    LET mode_str == GetOr(doc, path, "mode", SHARED) IN
    IF mode_str \notin {SHARED, DEDICATED} THEN [raised |-> "ValueError"]
    ELSE [raised |-> "",
          v |-> [mode |-> mode_str,
                 shared_alb_name |-> GetOr(doc, path, "shared_alb_name", TXT_empty),
                 certificate_arn |-> Get(doc, path, "certificate_arn")]]

\* _parse_secret: SecretSource(source_str) is evaluated after raw["name"].
parse_secret(doc, path) ==
    LET source_str == GetOr(doc, path, "source", GENERATE) IN
    IF ~HasKey(doc, path, "name") THEN [raised |-> "KeyError"]
    ELSE IF source_str \notin {GENERATE, ENV} THEN [raised |-> "ValueError"]
    ELSE [raised |-> "",
          v |-> [name |-> Subscript(doc, path, "name"),
                 source |-> source_str,
                 length |-> GetOr(doc, path, "length", 50),
                 generate_once |-> GetOr(doc, path, "generate_once", TRUE)]]

\* _parse_env_override: a key that is a sub-table yields the sub-table's
\* items, a key that is absent yields the default.
parse_env_override(doc, path) ==
    [domain_overrides |-> Items(doc, At(path, "domain_overrides", 0)),
     instance_type_override |-> Get(doc, path, "instance_type_override"),
     ec2_instance_type_override |->
         Items(doc, At(path, "ec2_instance_type_override", 0))]

\* _parse_project: lines 72-81 run before the constructor's arguments are
\* evaluated, and __post_init__ runs last.
parse_project(doc) ==
    LET project == <<[n |-> "project", i |-> 0]>>
        rds_raw == <<[n |-> "rds", i |-> 0]>>
        alb_raw == <<[n |-> "alb", i |-> 0]>>
        env_overrides_raw == <<[n |-> "environments", i |-> 0]>>
        services == Collect([i \in 1..Len(Elements(doc, <<>>, "services")) |->
                parse_service(doc, Elements(doc, <<>>, "services")[i])])
        rds == IF NonEmptyTable(doc, rds_raw) THEN parse_rds(doc, rds_raw)
               ELSE [raised |-> "", v |-> None]
        s3_buckets == Collect([i \in 1..Len(Elements(doc, <<>>, "s3_buckets")) |->
                parse_s3(doc, Elements(doc, <<>>, "s3_buckets")[i])])
        alb == parse_alb(doc, alb_raw)
        secrets == Collect([i \in 1..Len(Elements(doc, <<>>, "secrets")) |->
                parse_secret(doc, Elements(doc, <<>>, "secrets")[i])])
        names == SubTables(doc, env_overrides_raw)
        environment_overrides ==
            [i \in 1..Len(names) |->
                [k |-> names[i],
                 v |-> parse_env_override(doc, At(env_overrides_raw, names[i], 0))]]
        parts == <<services, rds, s3_buckets, alb, secrets>>
        bad == {i \in 1..Len(parts) : parts[i].raised # ""}
    IN  IF bad # {}
        THEN [state |-> "error",
              raised |-> parts[CHOOSE i \in bad : \A j \in bad : i <= j].raised]
        ELSE IF ~HasKey(doc, project, "name")
        THEN [state |-> "error", raised |-> "KeyError"]
        ELSE
        LET r == PostInit(
                [project_name |-> Subscript(doc, project, "name"),
                 aws_region |-> GetOr(doc, project, "aws_region", TXT_us_east_1),
                 vpc_name |-> GetOr(doc, project, "vpc_name", TXT_vpc),
                 environments |-> GetOr(doc, project, "environments", <<PROD>>),
                 tags |-> Items(doc, At(project, "tags", 0)),
                 services |-> services.v,
                 rds |-> IF NonEmptyTable(doc, rds_raw) THEN Some(rds.v) ELSE None,
                 s3_buckets |-> s3_buckets.v,
                 alb |-> alb.v,
                 secrets |-> secrets.v,
                 environment_overrides |-> environment_overrides])
        IN  IF r.raised # "" THEN [state |-> "error", raised |-> "ValueError"]
            ELSE [state |-> "ok", config |-> r.fields]

\* load_config on a file holding the document.
load_config(lines) ==
    LET doc == toml_load(lines) IN
    IF doc.err THEN [state |-> "error", raised |-> "TOMLDecodeError"]
    ELSE parse_project(doc)

NotLoaded == [state |-> "none"]

NoCodec ==
    /\ toml = None
    /\ loaded = NotLoaded

\* No find_config call, no wizard, no CLI command and no concurrent
\* generation: the parts of the state a specification does not exercise.
NoTools ==
    /\ finder = [state |-> "none"]
    /\ wizard = [state |-> "none"]
    /\ cloud = [state |-> "none"]
    /\ race = [state |-> "none"]

\* text = dump_config(config)
DumpConfig ==
    /\ status = "valid"
    /\ toml' = Some(dump_config(config))
    /\ loaded' = NotLoaded
    /\ UNCHANGED <<projVars, call, genVars, toolVars>>

\* load_config(path) on the text last dumped.
LoadConfig ==
    /\ ~IsNone(toml)
    /\ loaded' = load_config(Val(toml))
    /\ UNCHANGED <<projVars, call, genVars, toml, toolVars>>

----------------------------------------------------------------------------
(* generate_project *)

\* A path is the sequence of its components; <<>> is output_dir itself.
P_stacks == <<"stacks">>
P_constructs == <<"stacks", "constructs">>
Construct_py(filename) == P_constructs \o <<filename>>

\* path.parent.mkdir(parents=True, exist_ok=True): the directories created.
Parents(path) == [i \in 1..(Len(path) - 1) |-> [op |-> "mkdir", path |-> SubSeq(path, 1, i)]]

\* Mutant: a declared script is copied without asking whether its source is
\* a file.
RECURSIVE ScriptSteps_unguarded(_, _, _)
ScriptSteps_unguarded(services, cwd, i) ==
    IF i > Len(services) THEN <<>>
    ELSE LET script == services[i].user_data_script IN
         (IF TruthyStr(script)
          THEN Parents(Val(script)) \o <<[op |-> "copy", path |-> Val(script)]>>
          ELSE <<>>)
         \o ScriptSteps_unguarded(services, cwd, i + 1)

\* The copies of lines 90-96, for services[i..].
RECURSIVE ScriptSteps(_, _, _)
ScriptSteps(services, cwd, i) ==
    IF i > Len(services) THEN <<>>
    ELSE LET script == services[i].user_data_script IN
         (IF TruthyStr(script) /\ Val(script) \in cwd
          THEN Parents(Val(script)) \o <<[op |-> "copy", path |-> Val(script)]>>
          ELSE <<>>)
         \o ScriptSteps(services, cwd, i + 1)

\* Mutant: the CDN construct is gated by the presence of buckets.
OptionalConstructs_cdnWithBuckets(c) ==
    (IF ~IsNone(c.rds)
     THEN <<[op |-> "render", path |-> Construct_py("rds_database.py")]>>
     ELSE <<>>)
    \o (IF Len(c.s3_buckets) > 0
        THEN <<[op |-> "render", path |-> Construct_py("s3_bucket.py")],
               [op |-> "render", path |-> Construct_py("cloudfront_distribution.py")]>>
        ELSE <<>>)

\* Lines 82-87.
OptionalConstructs(c) ==
    (IF ~IsNone(c.rds)
     THEN <<[op |-> "render", path |-> Construct_py("rds_database.py")]>>
     ELSE <<>>)
    \o (IF Len(c.s3_buckets) > 0
        THEN <<[op |-> "render", path |-> Construct_py("s3_bucket.py")]>>
        ELSE <<>>)
    \o (IF \E i \in 1..Len(c.s3_buckets) : c.s3_buckets[i].cloudfront
        THEN <<[op |-> "render", path |-> Construct_py("cloudfront_distribution.py")]>>
        ELSE <<>>)

\* The filesystem writes of generate_project(c, output_dir), in program order.
EmissionOrder(c, w) ==
    <<[op |-> "mkdir", path |-> <<>>],
      [op |-> "render", path |-> <<"app.py">>],
      [op |-> "render", path |-> <<"cdk.json">>],
      [op |-> "render", path |-> <<"pyproject.toml">>],
      [op |-> "render", path |-> <<"README.md">>],
      [op |-> "write", path |-> <<"darth-infra.toml">>]>>
    \o (IF w.schema
        THEN <<[op |-> "copy", path |-> <<"darth-infra.schema.json">>]>>
        ELSE <<>>)
    \o <<[op |-> "mkdir", path |-> P_stacks],
         [op |-> "mkdir", path |-> P_constructs],
         [op |-> "render", path |-> P_stacks \o <<"__init__.py">>],
         [op |-> "render", path |-> P_stacks \o <<"main_stack.py">>],
         [op |-> "render", path |-> Construct_py("__init__.py")],
         [op |-> "render", path |-> Construct_py("ecr_repository.py")],
         [op |-> "render", path |-> Construct_py("ecs_service.py")],
         [op |-> "render", path |-> Construct_py("alb.py")],
         [op |-> "render", path |-> Construct_py("secrets.py")]>>
    \o OptionalConstructs(c)
    \o ScriptSteps(c.services, w.cwd, 1)

\* The calls of generate_project the model follows in one behaviour.
MaxRuns == 1

\* gen.fresh: the output directory was empty when the call was made;
\* gen.runs: the calls made so far; gen.limit: the calls the model follows.
NotGenerating ==
    [state |-> "idle", config |-> None, pc |-> 0, fresh |-> TRUE, runs |-> 0,
     limit |-> MaxRuns]

NoGeneration ==
    /\ disk = {}
    /\ gen = NotGenerating
    /\ world = [schema |-> FALSE, cwd |-> {}]

\* generate_project(config, output_dir) is entered with an existing
\* ProjectConfig instance; lines 20-21 create output_dir.  It does not
\* validate its argument.
GenerateProject ==
    /\ status = "valid"
    /\ gen.state # "running"
    /\ gen.runs < gen.limit
    /\ gen' = [state |-> "running", config |-> config, pc |-> 2,
               fresh |-> disk = {}, runs |-> gen.runs + 1, limit |-> gen.limit]
    /\ disk' = disk \cup {<<>>}
    /\ UNCHANGED <<projVars, call, world, codecVars, toolVars>>

\* The next write of the running call; after the last one it returns.
GenerateStep ==
    /\ gen.state = "running"
    /\ LET order == EmissionOrder(gen.config, world) IN
        /\ disk' = disk \cup {order[gen.pc].path}
        /\ gen' = [gen EXCEPT !.pc = gen.pc + 1,
                              !.state = IF gen.pc = Len(order) THEN "returned"
                                        ELSE "running"]
    /\ UNCHANGED <<projVars, call, world, codecVars, toolVars>>

\* Mutant: a failed run removes the output directory.
GenerateFail_rollback ==
    /\ gen.state = "running"
    /\ disk' = {}
    /\ gen' = [gen EXCEPT !.state = "failed"]
    /\ UNCHANGED <<projVars, call, world, codecVars, toolVars>>

\* The next write raises (OSError from write_text, copy2 or mkdir), and the
\* exception leaves generate_project: nothing catches it.  The file being
\* written may have been created before the error.
GenerateFail ==
    /\ gen.state = "running"
    /\ \E created \in BOOLEAN :
           disk' = IF created
                   THEN disk \cup {EmissionOrder(gen.config, world)[gen.pc].path}
                   ELSE disk
    /\ gen' = [gen EXCEPT !.state = "failed"]
    /\ UNCHANGED <<projVars, call, world, codecVars, toolVars>>

\* The dataclasses are not frozen: a holder of a constructed ProjectConfig
\* can assign its fields, and __post_init__ does not run again.
\* Assignments after the last call the model follows are not followed either.
SetEnvironments(environments) ==
    /\ status = "valid"
    /\ gen.state # "running"
    /\ gen.runs < gen.limit
    /\ config' = [config EXCEPT !.environments = environments]
    /\ UNCHANGED <<supplied, status, raised, call, genVars, codecVars, toolVars>>

SetBuckets(s3_buckets) ==
    /\ status = "valid"
    /\ gen.state # "running"
    /\ gen.runs < gen.limit
    /\ config' = [config EXCEPT !.s3_buckets = s3_buckets]
    /\ UNCHANGED <<supplied, status, raised, call, genVars, codecVars, toolVars>>

SetRds(rds) ==
    /\ status = "valid"
    /\ gen.state # "running"
    /\ gen.runs < gen.limit
    /\ config' = [config EXCEPT !.rds = rds]
    /\ UNCHANGED <<supplied, status, raised, call, genVars, codecVars, toolVars>>

----------------------------------------------------------------------------
(* The state machine: fields are supplied, ProjectConfig(...) is called *)

SeqsUpTo(S, n) == UNION {[1..k -> S] : k \in 0..n}

NoCall == [op |-> "none"]

\* A caller's fields, not yet passed to ProjectConfig(...).
Draft(c) ==
    /\ config = c
    /\ supplied = c
    /\ status = "draft"
    /\ raised = ""
    /\ call = NoCall

\* ProjectConfig(**fields): the generated __init__ stores the fields and runs
\* __post_init__; the instance exists only if it returns.
Construct ==
    /\ status = "draft"
    /\ LET r == PostInit(config) IN
        /\ config' = r.fields
        /\ raised' = r.raised
        /\ status' = IF r.raised = "" THEN "valid" ELSE "error"
    /\ UNCHANGED <<supplied, call, genVars, codecVars, toolVars>>

----------------------------------------------------------------------------
(* SpecModel: construction over a universe of supplied fields *)

MaxEnvs == 3
MaxServices == 2
MaxBuckets == 2
MaxSecrets == 1

EnvNames == {"prod", "dev", "stg"}

Ec2Service(name, instance_type, architecture) ==
    [ServiceConfig(name) EXCEPT !.launch_type = EC2,
                                !.ec2_instance_type = instance_type,
                                !.architecture = architecture]

ServiceInputs ==
    { ServiceConfig("web"),
      [ServiceConfig("api") EXCEPT !.port = None,
                                   !.s3_access = <<"media">>,
                                   !.secrets = <<"KEY">>],
      [ServiceConfig("api") EXCEPT !.ec2_instance_type = Some(TXT_t4g_micro)],
      [ServiceConfig("api") EXCEPT
          !.ebs_volumes = <<EbsVolumeConfig("vol", 10, TXT_data)>>],
      Ec2Service("web", Some(TXT_t4g_micro), None),
      Ec2Service("web", Some(TXT_t3_medium), Some(ARM64)),
      Ec2Service("api", None, None),
      Ec2Service("api", Some(TXT_empty), Some(X86_64)) }

BucketInputs == { S3BucketConfig("media") }

SecretInputs ==
    { SecretConfig("KEY"),
      [SecretConfig("KEY") EXCEPT !.generate_once = FALSE],
      [SecretConfig("KEY") EXCEPT !.source = ENV, !.generate_once = FALSE] }

RdsInputs ==
    { None,
      Some([RdsConfig(TXT_db) EXCEPT !.expose_to = <<"web">>]),
      Some([RdsConfig(TXT_db) EXCEPT !.expose_to = <<"web", "api">>]) }

\* Every environments list, with a few service lists.
EnvServiceInputs ==
    { ServiceConfig("web"),
      Ec2Service("web", Some(TXT_t4g_micro), None),
      Ec2Service("api", None, None) }

InitEnvironments ==
    \E environments \in SeqsUpTo(EnvNames, MaxEnvs),
       services \in SeqsUpTo(EnvServiceInputs, MaxServices) :
        Draft([ProjectConfig(TXT_app, services) EXCEPT
                  !.environments = environments])

\* Every list of services, buckets and secrets, with a few environments lists.
InitEntities ==
    \E environments \in {<<"prod">>, <<"dev", "prod">>, <<"dev">>},
       services \in SeqsUpTo(ServiceInputs, MaxServices),
       s3_buckets \in SeqsUpTo(BucketInputs, MaxBuckets),
       secrets \in SeqsUpTo(SecretInputs, MaxSecrets),
       rds \in RdsInputs :
        Draft([ProjectConfig(TXT_app, services) EXCEPT
                  !.environments = environments,
                  !.s3_buckets = s3_buckets,
                  !.secrets = secrets,
                  !.rds = rds])

InitModel == (InitEnvironments \/ InitEntities) /\ NoGeneration /\ NoCodec /\ NoTools

NextModel == Construct

SpecModel == InitModel /\ [][NextModel]_vars

----------------------------------------------------------------------------
(* SpecArch: detect_architecture over every short string *)

MaxTypeLen == 4

TypeChars == {"a", "1", "t", "4", "g", "."}

TXT_c7g_large == <<"c","7","g",".","l","a","r","g","e">>

\* No ProjectConfig is involved.
NoProject ==
    /\ config = None
    /\ supplied = None
    /\ status = "none"
    /\ raised = ""

InitArch ==
    /\ NoProject
    /\ NoGeneration
    /\ NoCodec /\ NoTools
    /\ \E instance_type \in SeqsUpTo(TypeChars, MaxTypeLen)
                             \cup {TXT_t4g_micro, TXT_t3_medium, TXT_c7g_large} :
           call = [op |-> "detect_architecture", args |-> <<instance_type>>,
                   result |-> None]

DetectArchitecture ==
    /\ call.op = "detect_architecture"
    /\ call.result = None
    /\ call' = [call EXCEPT !.result = Some(detect_architecture(call.args[1]))]
    /\ UNCHANGED <<projVars, genVars, codecVars, toolVars>>

NextArch == DetectArchitecture

SpecArch == InitArch /\ [][NextArch]_vars

----------------------------------------------------------------------------
(* ProjectConfig.get_domain_for_service *)

\* next((s for s in services if s.name == service_name), None)
FirstNamed(services, service_name) ==
    IF \E i \in 1..Len(services) : services[i].name = service_name
    THEN Some(services[CHOOSE i \in 1..Len(services) :
                  /\ services[i].name = service_name
                  /\ \A h \in 1..(i - 1) : services[h].name # service_name])
    ELSE None

\* Mutant: the "prod" case is decided before the overrides are looked at.
get_domain_for_service_prodFirst(c, service_name, env) ==
    LET svc == FirstNamed(c.services, service_name)
        overrides == DictGet(c.environment_overrides, env)
    IN  IF IsNone(svc) \/ IsNone(Val(svc).domain) THEN None
        ELSE IF env = PROD THEN Val(svc).domain
        ELSE IF ~IsNone(overrides)
                /\ DictHas(Val(overrides).domain_overrides, service_name)
        THEN DictGet(Val(overrides).domain_overrides, service_name)
        ELSE Some(NameChars(env) \o <<"-">> \o Val(Val(svc).domain))

\* An EnvironmentOverride instance is always truthy, so "if overrides and ..."
\* tests only that the environment has an entry.
get_domain_for_service(c, service_name, env) ==
    LET svc == FirstNamed(c.services, service_name)
        overrides == DictGet(c.environment_overrides, env)
    IN  IF IsNone(svc) \/ IsNone(Val(svc).domain) THEN None
        ELSE IF ~IsNone(overrides)
                /\ DictHas(Val(overrides).domain_overrides, service_name)
        THEN DictGet(Val(overrides).domain_overrides, service_name)
        ELSE IF env = PROD THEN Val(svc).domain
        ELSE Some(NameChars(env) \o <<"-">> \o Val(Val(svc).domain))

GetDomainForService(service_name, env) ==
    /\ status = "valid"
    /\ call' = [op |-> "get_domain_for_service", args |-> <<service_name, env>>,
                result |-> get_domain_for_service(config, service_name, env)]
    /\ UNCHANGED <<projVars, genVars, codecVars, toolVars>>

----------------------------------------------------------------------------
(* ProjectConfig.get_rds_instance_type *)

\* Mutant: an override that is set wins even when it is the empty string.
get_rds_instance_type_isNotNone(c, env) ==
    LET overrides == DictGet(c.environment_overrides, env)
    IN  IF IsNone(c.rds) THEN [raised |-> "ValueError"]
        ELSE IF ~IsNone(overrides) /\ ~IsNone(Val(overrides).instance_type_override)
        THEN [raised |-> "", value |-> Val(Val(overrides).instance_type_override)]
        ELSE [raised |-> "", value |-> Val(c.rds).instance_type]

\* "if overrides and overrides.instance_type_override": the entry exists and
\* its instance type is neither None nor "".
get_rds_instance_type(c, env) ==
    LET overrides == DictGet(c.environment_overrides, env)
    IN  IF IsNone(c.rds) THEN [raised |-> "ValueError"]
        ELSE IF ~IsNone(overrides) /\ TruthyStr(Val(overrides).instance_type_override)
        THEN [raised |-> "", value |-> Val(Val(overrides).instance_type_override)]
        ELSE [raised |-> "", value |-> Val(c.rds).instance_type]

GetRdsInstanceType(env) ==
    /\ status = "valid"
    /\ call' = [op |-> "get_rds_instance_type", args |-> <<env>>,
                result |-> get_rds_instance_type(config, env)]
    /\ UNCHANGED <<projVars, genVars, codecVars, toolVars>>

----------------------------------------------------------------------------
(* SpecResolve: the resolvers on constructed projects with overrides *)

MaxOverrides == 2

ResolveServiceInputs ==
    { [ServiceConfig("web") EXCEPT !.domain = Some(TXT_a_io)],
      ServiceConfig("web"),
      ServiceConfig("api"),
      [ServiceConfig("api") EXCEPT !.domain = Some(TXT_empty)] }

DomainOverrideInputs ==
    { <<>>,
      <<[k |-> "web", v |-> TXT_d_io]>>,
      <<[k |-> "api", v |-> TXT_d_io]>> }

OverrideItems ==
    { [k |-> e, v |-> [EnvironmentOverride EXCEPT !.domain_overrides = d]] :
          e \in {"prod", "dev"}, d \in DomainOverrideInputs }
    \cup
    { [k |-> e, v |-> [EnvironmentOverride EXCEPT !.instance_type_override = t]] :
          e \in {"prod", "dev"}, t \in {Some(TXT_empty), Some(TXT_t3_medium)} }

\* The items of a dict have distinct keys.
IsDict(items) == \A i, j \in 1..Len(items) : i # j => items[i].k # items[j].k

ServiceNameArgs == {"web", "api", "ghost"}

InitResolve ==
    \E services \in SeqsUpTo(ResolveServiceInputs, MaxServices),
       environment_overrides \in SeqsUpTo(OverrideItems, MaxOverrides),
       rds \in {None, Some(RdsConfig(TXT_db))} :
        /\ IsDict(environment_overrides)
        /\ NoGeneration
        /\ NoCodec /\ NoTools
        /\ Draft([ProjectConfig(TXT_app, services) EXCEPT
                     !.environments = <<"dev", "prod">>,
                     !.rds = rds,
                     !.environment_overrides = environment_overrides])

NextResolve ==
    \/ Construct
    \/ \E service_name \in ServiceNameArgs, env \in EnvNames :
           GetDomainForService(service_name, env)
    \/ \E env \in EnvNames : GetRdsInstanceType(env)

SpecResolve == InitResolve /\ [][NextResolve]_vars

----------------------------------------------------------------------------
(* SpecGenerate: construction, field assignment and generation *)

MaxGenList == 1

P_boot == <<"scripts", "boot.sh">>
P_init == <<"init.sh">>

GenServiceInputs ==
    { ServiceConfig("web"),
      [ServiceConfig("web") EXCEPT !.user_data_script = Some(P_init)],
      [Ec2Service("api", Some(TXT_t4g_micro), None) EXCEPT
          !.user_data_script = Some(P_boot)] }

GenBucketInputs ==
    { S3BucketConfig("media"),
      [S3BucketConfig("media") EXCEPT !.cloudfront = TRUE] }

\* The values assigned to the fields of a constructed project.
EnvironmentEdits == {<<"dev">>, <<"prod", "dev">>}
BucketEdits == {<<>>, <<[S3BucketConfig("media") EXCEPT !.cloudfront = TRUE]>>}

InitGenerate ==
    \E environments \in {<<"prod">>, <<"dev">>},
       services \in SeqsUpTo(GenServiceInputs, MaxServices),
       s3_buckets \in SeqsUpTo(GenBucketInputs, MaxGenList),
       rds \in {None, Some(RdsConfig(TXT_db))},
       schema \in BOOLEAN,
       cwd \in {{}, {P_boot}} :
        /\ Draft([ProjectConfig(TXT_app, services) EXCEPT
                     !.environments = environments,
                     !.s3_buckets = s3_buckets,
                     !.rds = rds])
        /\ disk = {}
        /\ gen = NotGenerating
        /\ world = [schema |-> schema, cwd |-> cwd]
        /\ NoCodec /\ NoTools

NextGenerate ==
    \/ Construct
    \/ GenerateProject
    \/ GenerateStep
    \/ GenerateFail
    \/ \E environments \in EnvironmentEdits : SetEnvironments(environments)
    \/ \E s3_buckets \in BucketEdits : SetBuckets(s3_buckets)

SpecGenerate == InitGenerate /\ [][NextGenerate]_vars

----------------------------------------------------------------------------
(* SpecRegenerate: successive runs into one output directory *)

\* The runs into the same output directory.
MaxRegens == 2

InitRegenerate ==
    \E s3_buckets \in SeqsUpTo(GenBucketInputs, MaxGenList),
       rds \in {None, Some(RdsConfig(TXT_db))},
       schema \in BOOLEAN :
        /\ Draft([ProjectConfig(TXT_app, <<ServiceConfig("web")>>) EXCEPT
                     !.s3_buckets = s3_buckets,
                     !.rds = rds])
        /\ disk = {}
        /\ gen = [NotGenerating EXCEPT !.limit = MaxRegens]
        /\ world = [schema |-> schema, cwd |-> {}]
        /\ NoCodec /\ NoTools

NextRegenerate ==
    \/ Construct
    \/ GenerateProject
    \/ GenerateStep
    \/ \E s3_buckets \in BucketEdits : SetBuckets(s3_buckets)
    \/ \E rds \in {None, Some(RdsConfig(TXT_db))} : SetRds(rds)

SpecRegenerate == InitRegenerate /\ [][NextRegenerate]_vars

----------------------------------------------------------------------------
(* SpecRace: two generate_project calls on one output directory *)

\* The projects of call 1 and call 2.
RaceProjects ==
    <<[ProjectConfig(TXT_app, <<ServiceConfig("web")>>) EXCEPT
          !.rds = Some(RdsConfig(TXT_db))],
      [ProjectConfig(TXT_app, <<ServiceConfig("web")>>) EXCEPT
          !.s3_buckets = <<S3BucketConfig("media")>>]>>

\* race.files: what exists under output_dir, each file with the call whose
\* project it was written from (0 for a directory, and for a copy, which
\* has the same bytes whichever call makes it).  mkdir(exist_ok=True) keeps
\* an existing directory; a write replaces the file.
Applied(files, step, by) ==
    CASE step.op = "mkdir" ->
            IF \E f \in files : f.path = step.path THEN files
            ELSE files \cup {[path |-> step.path, by |-> 0]}
      [] step.op = "copy" ->
            {f \in files : f.path # step.path} \cup {[path |-> step.path, by |-> 0]}
      [] OTHER ->
            {f \in files : f.path # step.path} \cup {[path |-> step.path, by |-> by]}

\* Call p enters generate_project: lines 20-21.
RaceStart(p) ==
    /\ race.state = "ready"
    /\ race.procs[p].state = "idle"
    /\ race' = [race EXCEPT
                   !.procs[p] = [state |-> "running", pc |-> 2],
                   !.files = Applied(@, [op |-> "mkdir", path |-> <<>>], p)]
    /\ UNCHANGED <<projVars, call, genVars, codecVars, finder, wizard, cloud>>

\* Mutant: a call writes only while the other call is not running.
RaceStep_locked(p) ==
    /\ race.state = "ready"
    /\ race.procs[p].state = "running"
    /\ race.procs[3 - p].state # "running"
    /\ LET order == EmissionOrder(RaceProjects[p], race.world) IN
       race' = [race EXCEPT
                   !.procs[p] = [state |-> IF race.procs[p].pc = Len(order)
                                           THEN "returned" ELSE "running",
                                 pc |-> race.procs[p].pc + 1],
                   !.files = Applied(@, order[race.procs[p].pc], p)]
    /\ UNCHANGED <<projVars, call, genVars, codecVars, finder, wizard, cloud>>

\* The next write of call p.  generate_project takes no lock and looks at
\* nothing the other call does.
RaceStep(p) ==
    /\ race.state = "ready"
    /\ race.procs[p].state = "running"
    /\ LET order == EmissionOrder(RaceProjects[p], race.world) IN
       race' = [race EXCEPT
                   !.procs[p] = [state |-> IF race.procs[p].pc = Len(order)
                                           THEN "returned" ELSE "running",
                                 pc |-> race.procs[p].pc + 1],
                   !.files = Applied(@, order[race.procs[p].pc], p)]
    /\ UNCHANGED <<projVars, call, genVars, codecVars, finder, wizard, cloud>>

InitRace ==
    /\ NoProject
    /\ call = NoCall
    /\ NoGeneration
    /\ NoCodec
    /\ finder = [state |-> "none"]
    /\ wizard = [state |-> "none"]
    /\ cloud = [state |-> "none"]
    /\ \E schema \in BOOLEAN :
           race = [state |-> "ready",
                   procs |-> <<[state |-> "idle", pc |-> 0],
                               [state |-> "idle", pc |-> 0]>>,
                   files |-> {},
                   world |-> [schema |-> schema, cwd |-> {}]]

NextRace == \E p \in {1, 2} : RaceStart(p) \/ RaceStep(p)

SpecRace == InitRace /\ [][NextRace]_vars

----------------------------------------------------------------------------
(* SpecCodec: dump_config and load_config on constructed projects *)

TXT_run == <<"r","u","n">>
TXT_tricky == <<"a", QUOTE, BACKSLASH, "b">>

CodecServiceInputs ==
    { ServiceConfig("web"),
      [ServiceConfig("web") EXCEPT
          !.domain = Some(TXT_a_io),
          !.environment_variables = <<[k |-> "KEY", v |-> TXT_tricky]>>],
      [ServiceConfig("api") EXCEPT !.port = None, !.command = Some(TXT_run)],
      [ServiceConfig("api") EXCEPT !.command = Some(TXT_empty)],
      [ServiceConfig("api") EXCEPT
          !.launch_type = EC2,
          !.ec2_instance_type = Some(TXT_t4g_micro),
          !.user_data_script = Some(P_boot),
          !.ulimits = <<UlimitConfig("nofile", 1024, 4096)>>,
          !.ebs_volumes = <<EbsVolumeConfig("vol", 20, TXT_data)>>] }

CodecOverrideInputs ==
    { EnvironmentOverride,
      [EnvironmentOverride EXCEPT
          !.domain_overrides = <<[k |-> "web", v |-> TXT_d_io]>>],
      [EnvironmentOverride EXCEPT
          !.instance_type_override = Some(TXT_t3_medium)],
      [EnvironmentOverride EXCEPT
          !.instance_type_override = Some(TXT_t3_medium),
          !.ec2_instance_type_override = <<[k |-> "api", v |-> TXT_t3_medium]>>],
      [EnvironmentOverride EXCEPT
          !.domain_overrides = <<[k |-> "web", v |-> TXT_d_io]>>,
          !.instance_type_override = Some(TXT_t3_medium)],
      [EnvironmentOverride EXCEPT
          !.domain_overrides = <<[k |-> "web", v |-> TXT_d_io]>>,
          !.ec2_instance_type_override = <<[k |-> "api", v |-> TXT_t3_medium]>>] }

InitCodec ==
    \E services \in SeqsUpTo(CodecServiceInputs, MaxServices),
       override \in {None} \cup {Some(o) : o \in CodecOverrideInputs},
       rds \in {None, Some([RdsConfig(TXT_db) EXCEPT !.expose_to = <<"web">>])},
       extras \in BOOLEAN,
       project_name \in {TXT_app, TXT_tricky} :
        /\ NoGeneration
        /\ NoCodec /\ NoTools
        /\ Draft([ProjectConfig(project_name, services) EXCEPT
                     !.environments = <<"dev", "prod">>,
                     !.rds = rds,
                     !.s3_buckets =
                         When(extras, <<[S3BucketConfig("media") EXCEPT
                                            !.cloudfront = TRUE]>>),
                     !.secrets = When(extras, <<SecretConfig("KEY")>>),
                     !.tags = When(extras, <<[k |-> "owner", v |-> TXT_app]>>),
                     !.environment_overrides =
                         IF IsNone(override) THEN <<>>
                         ELSE <<[k |-> "dev", v |-> Val(override)]>>])

NextCodec ==
    \/ Construct
    \/ DumpConfig
    \/ LoadConfig

SpecCodec == InitCodec /\ [][NextCodec]_vars

----------------------------------------------------------------------------
(* SpecParse: load_config on hand-written documents *)

\* The documents: one choice for each section, the sections in the order
\* dump_config uses.
Documents ==
    LET projects ==
            { <<>>,
              <<Table(<<"project">>), KV("name", StrVal(TXT_app))>>,
              <<Table(<<"project">>), KV("aws_region", StrVal(TXT_us_east_1))>>,
              <<Table(<<"project">>), KV("name", StrVal(TXT_app)),
                KV("environments", NamesVal(<<"dev", "prod">>))>> }
        services ==
            { <<>> } \cup
            { <<Array(<<"services">>)>> \o kvs :
                kvs \in { <<KV("name", NameVal("web"))>>,
                          <<KV("port", IntVal(9000))>>,
                          <<KV("name", NameVal("web")), KV("port", IntVal(9000))>>,
                          <<KV("name", NameVal("web")),
                            KV("launch_type", NameVal("lambda"))>>,
                          <<KV("name", NameVal("web")),
                            KV("launch_type", NameVal(""))>>,
                          <<KV("name", NameVal("web")),
                            KV("architecture", NameVal("riscv"))>>,
                          <<KV("name", NameVal("web")),
                            KV("architecture", NameVal(""))>>,
                          <<KV("name", NameVal("web")),
                            KV("architecture", NameVal(ARM64))>> } }
        databases ==
            { <<>>,
              <<Table(<<"rds">>)>>,
              <<Table(<<"rds">>), KV("instance_type", StrVal(TXT_t3_medium))>>,
              <<Table(<<"rds">>), KV("database_name", StrVal(TXT_db))>> }
        buckets ==
            { <<>>,
              <<Array(<<"s3_buckets">>), KV("name", NameVal("media"))>>,
              <<Array(<<"s3_buckets">>), KV("cors", BoolVal(TRUE))>> }
        albs ==
            { <<>>,
              <<Table(<<"alb">>), KV("mode", NameVal(DEDICATED))>>,
              <<Table(<<"alb">>), KV("mode", NameVal("internal"))>>,
              <<Table(<<"alb">>), KV("mode", NameVal(""))>> }
        secrets ==
            { <<>>,
              <<Array(<<"secrets">>), KV("name", NameVal("KEY"))>>,
              <<Array(<<"secrets">>), KV("length", IntVal(32))>>,
              <<Array(<<"secrets">>), KV("name", NameVal("KEY")),
                KV("source", NameVal("vault"))>>,
              <<Array(<<"secrets">>), KV("name", NameVal("KEY")),
                KV("source", NameVal(""))>> }
    IN  { p \o s \o d \o b \o a \o k :
            p \in projects, s \in services, d \in databases, b \in buckets,
            a \in albs, k \in secrets }

\* A file holding one of the documents; no project has been built.
InitParse ==
    /\ NoProject
    /\ call = NoCall
    /\ NoGeneration
    /\ loaded = NotLoaded
    /\ NoTools
    /\ \E doc \in Documents : toml = Some(doc)

NextParse == LoadConfig

SpecParse == InitParse /\ [][NextParse]_vars

----------------------------------------------------------------------------
(* find_config *)

\* The resolved start directory lies MaxDepth or fewer levels below the
\* filesystem root.  A directory on that chain is its depth; 0 is the root.
MaxDepth == 3

\* current.parent: the root is its own parent.
Parent(dir) == IF dir = 0 THEN 0 ELSE dir - 1

\* Mutant: candidate.exists() in place of candidate.is_file().
IsFile_exists(entries, dir) == entries[dir] # "absent"

\* (current / CONFIG_FILENAME).is_file(), where entries[dir] says what the
\* name darth-infra.toml is in dir: "absent", a "file" or a "dir".
IsFile(entries, dir) == entries[dir] = "file"

\* find_config(start): line 40.
FindConfig(start) ==
    /\ finder.state = "idle"
    /\ finder' = [finder EXCEPT !.state = "walking", !.start = start,
                                !.current = start]
    /\ UNCHANGED <<projVars, call, genVars, codecVars, wizard, cloud, race>>

\* One turn of the loop of lines 41-51.
FindStep ==
    /\ finder.state = "walking"
    /\ finder' =
           IF IsFile(finder.entries, finder.current)
           THEN [finder EXCEPT !.state = "returned", !.result = finder.current]
           ELSE IF Parent(finder.current) = finder.current
           THEN [finder EXCEPT !.state = "raised"]
           ELSE [finder EXCEPT !.current = Parent(finder.current)]
    /\ UNCHANGED <<projVars, call, genVars, codecVars, wizard, cloud, race>>

\* SpecFind: every filesystem of MaxDepth levels and every start directory.
\* The loop is the only thing the calling process does, so it keeps running.
InitFind ==
    /\ NoProject
    /\ call = NoCall
    /\ NoGeneration
    /\ NoCodec
    /\ wizard = [state |-> "none"]
    /\ cloud = [state |-> "none"]
    /\ race = [state |-> "none"]
    /\ \E entries \in [0..MaxDepth -> {"absent", "file", "dir"}] :
           finder = [state |-> "idle", entries |-> entries,
                     start |-> 0, current |-> 0, result |-> 0]

NextFind ==
    \/ \E start \in 0..MaxDepth : FindConfig(start)
    \/ FindStep

SpecFind == InitFind /\ [][NextFind]_vars /\ WF_vars(FindStep)

----------------------------------------------------------------------------
(* The wizard's list screens: services, S3 buckets, secrets *)

\* The entries the three draft lists hold at most, taken together.
MaxItems == 3

\* str.strip(), for the blanks of the model's alphabet.
RECURSIVE LStrip(_)
LStrip(text) ==
    IF Len(text) > 0 /\ Head(text) = " " THEN LStrip(Tail(text)) ELSE text

Reverse(text) == [i \in 1..Len(text) |-> text[Len(text) + 1 - i]]

Strip(text) == Reverse(LStrip(Reverse(LStrip(text))))

\* int(text) for an unsigned decimal; anything else raises ValueError.
DecimalDigits == <<"0", "1", "2", "3", "4", "5", "6", "7", "8", "9">>

IsInt(text) == Len(text) > 0 /\ \A i \in 1..Len(text) : text[i] \in Range(DecimalDigits)

RECURSIVE IntOf(_)
IntOf(text) ==
    IF Len(text) = 0 THEN 0
    ELSE 10 * IntOf(Front(text))
         + (CHOOSE d \in 0..9 : DecimalDigits[d + 1] = Last(text))

\* value.strip() or None
StripOrNone(text) == IF Strip(text) = <<>> THEN None ELSE Some(Strip(text))

\* The outcome of a _read_form: the dict, None after a notify, or ValueError.
Accepted(item) == [r |-> "ok", item |-> item]
Rejected == [r |-> "rejected"]
Raised == [r |-> "raised"]

\* darth_ecs ServicesScreen._read_form, lines 120-146.  The fields that are
\* read with a default and never tested (dockerfile, build_context,
\* health_check_path, command) are left at their defaults.
ReadServiceForm_ecs(form) ==
    IF Strip(form.name) = <<>> THEN Rejected
    ELSE IF Strip(form.port) # <<>> /\ ~IsInt(Strip(form.port)) THEN Raised
    ELSE LET port == IF Strip(form.port) = <<>> THEN None
                     ELSE Some(IntOf(Strip(form.port)))
             domain == StripOrNone(form.domain)
         IN  IF ~IsNone(port) /\ ~TruthyStr(domain) THEN Rejected
             ELSE Accepted([name |-> Strip(form.name), port |-> port,
                            domain |-> domain])

\* darth_infra ServicesScreen._read_form, lines 446-519, with cpu, memory and
\* the other untested fields left at their defaults.
ReadServiceForm_infra(form) ==
    IF Strip(form.name) = <<>> THEN Rejected
    ELSE IF Strip(form.port) # <<>> /\ ~IsInt(Strip(form.port)) THEN Raised
    ELSE IF form.is_ec2 /\ ~TruthyStr(StripOrNone(form.ec2_instance_type))
    THEN Rejected
    ELSE Accepted([name |-> Strip(form.name),
                   port |-> IF Strip(form.port) = <<>> THEN None
                            ELSE Some(IntOf(Strip(form.port))),
                   domain |-> StripOrNone(form.domain),
                   launch_type |-> IF form.is_ec2 THEN EC2 ELSE FARGATE,
                   ec2_instance_type |->
                       IF form.is_ec2 THEN StripOrNone(form.ec2_instance_type)
                       ELSE None])

\* darth_ecs S3Screen._read_form, lines 94-106 (the cors and public_read
\* switches are left off).
ReadBucketForm(form) ==
    IF Strip(form.name) = <<>> THEN Rejected
    ELSE Accepted([name |-> Strip(form.name), cloudfront |-> form.cloudfront])

\* darth_ecs SecretsScreen._read_form, lines 120-138.
ReadSecretForm(form) ==
    IF Strip(form.name) = <<>> THEN Rejected
    ELSE IF Strip(form.length) # <<>> /\ ~IsInt(Strip(form.length)) THEN Raised
    ELSE Accepted([name |-> Strip(form.name), source |-> form.source,
                   length |-> IF Strip(form.length) = <<>> THEN 50
                              ELSE IntOf(Strip(form.length)),
                   generate_once |-> TRUE])

\* self._read_form() of the screen on display.
ReadForm(pkg, screen, form) ==
    CASE screen = "services" /\ pkg = "darth_ecs" -> ReadServiceForm_ecs(form)
      [] screen = "services" /\ pkg = "darth_infra" -> ReadServiceForm_infra(form)
      [] screen = "s3" -> ReadBucketForm(form)
      [] screen = "secrets" -> ReadSecretForm(form)

\* What the user can have typed into the form of a screen.
TXT_web == <<"w", "e", "b">>

Forms(pkg, screen) ==
    CASE screen = "services" ->
            [name : {<<>>, <<" ">>, TXT_web},
             port : {<<>>, <<"8", "0">>, <<"x">>},
             domain : {<<>>, TXT_a_io},
             is_ec2 : {FALSE},
             ec2_instance_type : {<<>>}]
            \cup (IF pkg = "darth_infra"
                  THEN [name : {TXT_web}, port : {<<>>}, domain : {<<>>},
                        is_ec2 : {TRUE},
                        ec2_instance_type : {<<>>, TXT_t3_medium}]
                  ELSE {})
      [] screen = "s3" ->
            [name : {<<>>, <<"m", " ">>}, cloudfront : BOOLEAN]
      [] screen = "secrets" ->
            [name : {<<>>, <<"K">>}, source : {GENERATE, ENV},
             length : {<<>>, <<"x">>}]
      [] OTHER -> {}

\* The screens in the order advance_to pushes them.  Of darth_infra only the
\* services screen is part of the sources.
Chain(pkg) ==
    IF pkg = "darth_ecs"
    THEN <<"welcome", "services", "rds", "s3", "alb", "secrets", "review">>
    ELSE <<"welcome", "services", "rds">>

Position(pkg, screen) == CHOOSE i \in 1..Len(Chain(pkg)) : Chain(pkg)[i] = screen

ListScreens == {"services", "s3", "secrets"}

\* The key of self._state a list screen edits.
ListKey(screen) ==
    CASE screen = "services" -> "services"
      [] screen = "s3" -> "s3_buckets"
      [] screen = "secrets" -> "secrets"

OnListScreen == wizard.state = "running" /\ wizard.screen \in ListScreens

\* The model follows an Add while the draft has room for the entry.
HasRoom ==
    Len(wizard.draft.services) + Len(wizard.draft.s3_buckets)
        + Len(wizard.draft.secrets) < MaxItems

\* wizard.last: the handler that ran last, and whether it went through.
Pressed(w, op, done) == [w EXCEPT !.last = [op |-> op, done |-> done]]

\* An exception that leaves a message handler ends the application.
Crashed(w, op) ==
    [w EXCEPT !.state = "crashed", !.last = [op |-> op, done |-> FALSE]]

\* app.advance_to(next): a new instance of the next screen is pushed.
AdvanceTo(w) ==
    LET next == Chain(w.pkg)[Position(w.pkg, w.screen) + 1] IN
    IF next \in ListScreens
    THEN [w EXCEPT !.screen = next, !.editing[ListKey(next)] = None]
    ELSE [w EXCEPT !.screen = next]

\* _add_service / _add_bucket / _add_secret after a form that was read.
Added(w, item) ==
    [w EXCEPT !.draft[ListKey(w.screen)] = Append(@, item),
              !.editing[ListKey(w.screen)] = None]

\* del list[index], with Python's index.
DeleteAt(list, index) ==
    SubSeq(list, 1, index) \o SubSeq(list, index + 2, Len(list))

\* on_list_view_selected: the index of the sidebar entry, or None.
OnListViewSelected(idx) ==
    /\ OnListScreen
    /\ LET key == ListKey(wizard.screen) IN
       wizard' = IF ~IsNone(idx) /\ Val(idx) < Len(wizard.draft[key])
                 THEN Pressed([wizard EXCEPT !.editing[key] = idx], "select", TRUE)
                 ELSE Pressed(wizard, "select", FALSE)
    /\ UNCHANGED <<projVars, call, genVars, codecVars, finder, cloud, race>>

\* The "+ Add" button.
PressAdd(form) ==
    /\ OnListScreen
    /\ HasRoom
    /\ LET read == ReadForm(wizard.pkg, wizard.screen, form) IN
       wizard' = CASE read.r = "ok" -> Pressed(Added(wizard, read.item), "add", TRUE)
                   [] read.r = "rejected" -> Pressed(wizard, "add", FALSE)
                   [] read.r = "raised" -> Crashed(wizard, "add")
    /\ UNCHANGED <<projVars, call, genVars, codecVars, finder, cloud, race>>

\* The "Update" button.
PressSave(form) ==
    /\ OnListScreen
    /\ LET key == ListKey(wizard.screen)
           read == ReadForm(wizard.pkg, wizard.screen, form)
       IN  wizard' =
               IF IsNone(wizard.editing[key]) THEN Pressed(wizard, "save", FALSE)
               ELSE CASE read.r = "ok" ->
                           Pressed([wizard EXCEPT
                               !.draft[key][Val(wizard.editing[key]) + 1] = read.item,
                               !.editing[key] = None], "save", TRUE)
                      [] read.r = "rejected" -> Pressed(wizard, "save", FALSE)
                      [] read.r = "raised" -> Crashed(wizard, "save")
    /\ UNCHANGED <<projVars, call, genVars, codecVars, finder, cloud, race>>

\* Mutant: Remove deletes the entry and stays in edit mode.
PressRemove_staysInEditMode ==
    /\ OnListScreen
    /\ LET key == ListKey(wizard.screen) IN
       wizard' =
           IF IsNone(wizard.editing[key]) THEN Pressed(wizard, "remove", FALSE)
           ELSE Pressed([wizard EXCEPT
                    !.draft[key] = DeleteAt(@, Val(wizard.editing[key]))],
                    "remove", TRUE)
    /\ UNCHANGED <<projVars, call, genVars, codecVars, finder, cloud, race>>

\* The "Remove" button.
PressRemove ==
    /\ OnListScreen
    /\ LET key == ListKey(wizard.screen) IN
       wizard' =
           IF IsNone(wizard.editing[key]) THEN Pressed(wizard, "remove", FALSE)
           ELSE Pressed([wizard EXCEPT
                    !.draft[key] = DeleteAt(@, Val(wizard.editing[key])),
                    !.editing[key] = None], "remove", TRUE)
    /\ UNCHANGED <<projVars, call, genVars, codecVars, finder, cloud, race>>

\* The "Next" button of a list screen: a filled-in form is added first, and
\* the services screen asks for one service.
PressNext(form) ==
    /\ OnListScreen
    /\ LET key == ListKey(wizard.screen)
           adds == Strip(form.name) # <<>> /\ IsNone(wizard.editing[key])
           read == ReadForm(wizard.pkg, wizard.screen, form)
           after == IF adds /\ read.r = "ok" THEN Added(wizard, read.item)
                    ELSE wizard
       IN  /\ adds => HasRoom
           /\ wizard' =
                  IF adds /\ read.r = "raised" THEN Crashed(wizard, "next")
                  ELSE IF wizard.screen = "services" /\ Len(after.draft.services) = 0
                  THEN Pressed(after, "next", FALSE)
                  ELSE Pressed(AdvanceTo(after), "next", TRUE)
    /\ UNCHANGED <<projVars, call, genVars, codecVars, finder, cloud, race>>

\* The "Back" button: app.pop_screen() discards the screen on display.
PressBack ==
    /\ wizard.state = "running"
    /\ wizard.screen # "welcome"
    /\ LET below == Chain(wizard.pkg)[Position(wizard.pkg, wizard.screen) - 1]
           popped == IF wizard.screen \in ListScreens
                     THEN [wizard EXCEPT !.editing[ListKey(wizard.screen)] = None]
                     ELSE wizard
       IN  wizard' = Pressed([popped EXCEPT !.screen = below], "back", TRUE)
    /\ UNCHANGED <<projVars, call, genVars, codecVars, finder, cloud, race>>

\* "Next" on a screen that edits none of the three lists.
PressNextElsewhere ==
    /\ wizard.state = "running"
    /\ wizard.screen \notin ListScreens
    /\ Position(wizard.pkg, wizard.screen) < Len(Chain(wizard.pkg))
    /\ wizard' = Pressed(AdvanceTo(wizard), "next", TRUE)
    /\ UNCHANGED <<projVars, call, genVars, codecVars, finder, cloud, race>>

\* SpecWizard: either application, from its first screen.
InitWizard ==
    /\ NoProject
    /\ call = NoCall
    /\ NoGeneration
    /\ NoCodec
    /\ finder = [state |-> "none"]
    /\ cloud = [state |-> "none"]
    /\ race = [state |-> "none"]
    /\ \E pkg \in {"darth_ecs", "darth_infra"} :
           wizard = [state |-> "running", pkg |-> pkg, screen |-> "welcome",
                     draft |-> [services |-> <<>>, s3_buckets |-> <<>>,
                                secrets |-> <<>>],
                     editing |-> [services |-> None, s3_buckets |-> None,
                                  secrets |-> None],
                     last |-> [op |-> "none", done |-> FALSE]]

NextWizard ==
    \/ \E idx \in {None} \cup {Some(i) : i \in 0..MaxItems} : OnListViewSelected(idx)
    \/ \E form \in Forms(wizard.pkg, wizard.screen) : PressAdd(form)
    \/ \E form \in Forms(wizard.pkg, wizard.screen) : PressSave(form)
    \/ PressRemove
    \/ \E form \in Forms(wizard.pkg, wizard.screen) : PressNext(form)
    \/ PressBack
    \/ PressNextElsewhere

SpecWizard == InitWizard /\ [][NextWizard]_vars

----------------------------------------------------------------------------
(* The deploy and destroy commands *)

\* cf.describe_stacks(StackName=name): it returns only for a stack that
\* exists; it raises ClientError for one that does not, and for any other
\* error the service answers with (access denied, throttling, an expired
\* token); a request that gets no answer raises another exception.
DescribeStacks(exists) ==
    IF exists THEN {"described", "ClientError", "error"}
    ELSE {"ClientError", "error"}

\* Mutant: the deploy command does not ask for the prod stack.
RequireProdDeployed_unchecked(env, answer) == TRUE

\* require_prod_deployed returns (TRUE) or exits with status 1 (FALSE).
RequireProdDeployed(env, answer) == env = PROD \/ answer = "described"

\* The stacks after `cdk deploy` of env's stack ended with status rc: a
\* failed deployment may leave the stack behind.
AfterCdkDeploy(stacks, env, rc, left) ==
    IF rc = 0 \/ left THEN stacks \cup {env} ELSE stacks

\* The stacks after `cdk destroy`: a failed deletion may leave the stack.
AfterCdkDestroy(stacks, env, rc, left) ==
    IF rc = 0 \/ ~left THEN stacks \ {env} ELSE stacks

\* cloud.last: the command, whether it ran cdk, its exit status, and whether
\* describe_stacks returned for the prod stack.
Outcome(cmd, env, invoked, exit, observed) ==
    [cmd |-> cmd, env |-> env, invoked |-> invoked, exit |-> exit,
     observed |-> observed]

\* darth-infra deploy --env env_name: deploy_cmd.py lines 23-58.
Deploy(env_name, answer, rc, left) ==
    /\ cloud.state = "ready"
    /\ answer \in DescribeStacks(PROD \in cloud.stacks)
    /\ cloud' =
           IF env_name \notin Range(config.environments)
           THEN [cloud EXCEPT !.last = Outcome("deploy", env_name, FALSE, 1, FALSE)]
           ELSE IF ~RequireProdDeployed(env_name, answer)
           THEN [cloud EXCEPT !.last = Outcome("deploy", env_name, FALSE, 1, FALSE)]
           ELSE [cloud EXCEPT
                    !.stacks = AfterCdkDeploy(@, env_name, rc, left),
                    !.last = Outcome("deploy", env_name, TRUE, rc,
                                     env_name # PROD /\ answer = "described")]
    /\ UNCHANGED <<projVars, call, genVars, codecVars, finder, wizard, race>>

\* darth-infra destroy --env env_name [--force]: destroy_cmd.py lines
\* 14-55.  answers[e] is what describe_stacks does for environment e in the
\* loop of lines 21-32; the loop goes on after ClientError only.
Destroy(env_name, confirmed, answers, rc, left) ==
    /\ cloud.state = "ready"
    /\ \A e \in DOMAIN answers : answers[e] \in DescribeStacks(e \in cloud.stacks)
    /\ LET others == Range(config.environments) \ {PROD}
           refused == /\ env_name = PROD
                      /\ \E e \in others : answers[e] # "ClientError"
       IN  cloud' =
               IF refused \/ ~confirmed
               THEN [cloud EXCEPT !.last = Outcome("destroy", env_name, FALSE, 1, FALSE)]
               ELSE [cloud EXCEPT
                        !.stacks = AfterCdkDestroy(@, env_name, rc, left),
                        !.last = Outcome("destroy", env_name, TRUE, rc, FALSE)]
    /\ UNCHANGED <<projVars, call, genVars, codecVars, finder, wizard, race>>

\* SpecDeploy: a configuration that load_config returned, no stack yet, and
\* any sequence of the two commands.  "qa" is configured nowhere.
DeployEnvNames == {"prod", "dev", "staging", "qa"}

InitDeploy ==
    /\ \E environments \in {<<"prod">>, <<"prod", "dev">>, <<"prod", "dev", "staging">>} :
           /\ config = [ProjectConfig(TXT_app, <<>>) EXCEPT !.environments = environments]
           /\ supplied = config
    /\ status = "valid"
    /\ raised = ""
    /\ call = NoCall
    /\ NoGeneration
    /\ NoCodec
    /\ finder = [state |-> "none"]
    /\ wizard = [state |-> "none"]
    /\ race = [state |-> "none"]
    /\ cloud = [state |-> "ready", stacks |-> {},
                last |-> Outcome("none", "", FALSE, 0, FALSE)]

NextDeploy ==
    \/ \E env_name \in DeployEnvNames, answer \in {"described", "ClientError", "error"},
          rc \in {0, 1}, left \in BOOLEAN :
           Deploy(env_name, answer, rc, left)
    \/ \E env_name \in DeployEnvNames, confirmed \in BOOLEAN,
          answers \in [DeployEnvNames \ {PROD} -> {"described", "ClientError", "error"}],
          rc \in {0, 1}, left \in BOOLEAN :
           Destroy(env_name, confirmed, answers, rc, left)

SpecDeploy == InitDeploy /\ [][NextDeploy]_vars

----------------------------------------------------------------------------
(* Claims about construction (SpecModel) *)

Count(s, x) == Cardinality({i \in 1..Len(s) : s[i] = x})

\* The construction invariants, stated of the fields as supplied.
ValidFields(c) ==
    /\ \E i \in 1..Len(c.environments) : c.environments[i] = PROD
    /\ \A i, j \in 1..Len(c.services) :
           i # j => c.services[i].name # c.services[j].name
    /\ \A i, j \in 1..Len(c.s3_buckets) :
           i # j => c.s3_buckets[i].name # c.s3_buckets[j].name
    /\ \A i \in 1..Len(c.services) :
           c.services[i].launch_type = EC2 =>
               c.services[i].ec2_instance_type \notin {None, Some(TXT_empty)}
    /\ \A i \in 1..Len(c.services) :
           c.services[i].launch_type = FARGATE => c.services[i].ebs_volumes = <<>>
    /\ c.rds # None =>
           \A k \in 1..Len(c.rds[1].expose_to) :
               \E i \in 1..Len(c.services) :
                   c.services[i].name = c.rds[1].expose_to[k]
    /\ \A i \in 1..Len(c.services) : \A k \in 1..Len(c.services[i].s3_access) :
           \E b \in 1..Len(c.s3_buckets) :
               c.s3_buckets[b].name = c.services[i].s3_access[k]
    /\ \A i \in 1..Len(c.services) : \A k \in 1..Len(c.services[i].secrets) :
           \E b \in 1..Len(c.secrets) :
               c.secrets[b].name = c.services[i].secrets[k]
    /\ \A i \in 1..Len(c.secrets) :
           ~(c.secrets[i].source = GENERATE /\ c.secrets[i].generate_once = FALSE)

\* C1: ProjectConfig(...) returns an instance if and only if the supplied
\* fields satisfy the nine construction invariants; otherwise it raises and
\* there is no instance.  A service with a port and no domain is accepted.
C1_ConstructsIffValid ==
    /\ status = "valid" => ValidFields(supplied) /\ raised = ""
    /\ status = "error" => ~ValidFields(supplied) /\ raised # ""

C1_Witness ==
    /\ status = "valid"
    /\ Len(config.services) = 2
    /\ config.rds # None
    /\ \E i \in 1..Len(config.services) :
           /\ config.services[i].port # None
           /\ config.services[i].domain = None
    /\ \E i \in 1..Len(config.services) : config.services[i].s3_access # <<>>

\* C4: after a successful construction "prod" is at index 0, the list has
\* the length of the supplied list and the other names keep their supplied
\* relative order.
C4_ProdFirstOthersInOrder ==
    status = "valid" =>
        /\ config.environments[1] = PROD
        /\ Len(config.environments) = Len(supplied.environments)
        /\ SelectSeq(config.environments, LAMBDA e : e # PROD)
               = SelectSeq(supplied.environments, LAMBDA e : e # PROD)

C4_Witness ==
    /\ status = "valid"
    /\ supplied.environments = <<"dev", "stg", "prod">>
    /\ config.environments = <<"prod", "dev", "stg">>

\* C5 (as claimed): the environments of a constructed ProjectConfig hold no
\* name twice, whatever list was supplied.
C5_NoDuplicateEnvironments ==
    status = "valid" => ~HasDuplicates(config.environments)

\* C5 (amended): construction neither removes nor adds a name: every name
\* occurs in environments as often as it was supplied, so the list holds a
\* duplicate exactly when the supplied list did.
C5_OccurrencesKept ==
    status = "valid" =>
        /\ \A e \in EnvNames :
               Count(config.environments, e) = Count(supplied.environments, e)
        /\ HasDuplicates(config.environments) <=> HasDuplicates(supplied.environments)

C5_Witness ==
    /\ status = "valid"
    /\ supplied.environments = <<"dev", "prod", "prod">>
    /\ config.environments = <<"prod", "dev", "prod">>

\* C6: when construction raises, the caller's environments list is in the
\* order it was supplied in and no supplied ServiceConfig has had its
\* architecture set.
C6_NothingChangedOnFailure ==
    status = "error" =>
        /\ config.environments = supplied.environments
        /\ \A i \in 1..Len(config.services) :
               config.services[i].architecture = supplied.services[i].architecture

\* C7: a successful construction changes only where "prod" stands in
\* environments and the architecture of services supplied without one.
C7_OnlyTwoNormalizations ==
    status = "valid" =>
        /\ [config EXCEPT !.environments = <<>>, !.services = <<>>]
               = [supplied EXCEPT !.environments = <<>>, !.services = <<>>]
        /\ RemoveFirst(config.environments, PROD)
               = RemoveFirst(supplied.environments, PROD)
        /\ Len(config.services) = Len(supplied.services)
        /\ \A i \in 1..Len(config.services) :
               /\ [config.services[i] EXCEPT !.architecture = None]
                      = [supplied.services[i] EXCEPT !.architecture = None]
               /\ supplied.services[i].architecture # None =>
                      config.services[i].architecture
                          = supplied.services[i].architecture

C7_Witness ==
    /\ status = "valid"
    /\ supplied.environments[1] # PROD
    /\ \E i \in 1..Len(config.services) :
           /\ supplied.services[i].ec2_instance_type = Some(TXT_t3_medium)
           /\ config.services[i].architecture = Some(ARM64)
    /\ config.rds # None
    /\ config.secrets # <<>>

----------------------------------------------------------------------------
(* Claims about detect_architecture (SpecArch) *)

\* The characters before the first "." of s, all of s when it has none.
BeforeFirstDot(s) ==
    IF \E i \in 1..Len(s) : s[i] = "."
    THEN SubSeq(s, 1, (CHOOSE i \in 1..Len(s) :
                           s[i] = "." /\ \A h \in 1..(i - 1) : s[h] # ".") - 1)
    ELSE s

\* C9: for every string detect_architecture returns ARM64 exactly when the
\* characters before the first "." are an entry of the ARM family table, and
\* X86_64 otherwise; it never raises.  "t4g.micro" and "c7g.large" give
\* ARM64, "t3.medium" gives X86_64.
C9_DetectArchitecture ==
    (call.op = "detect_architecture" /\ call.result # None) =>
        LET s == call.args[1]
            r == call.result[1]
        IN  /\ r \in {ARM64, X86_64}
            /\ r = ARM64 <=> BeforeFirstDot(s) \in ARM_PREFIXES
            /\ s \in {TXT_t4g_micro, TXT_c7g_large} => r = ARM64
            /\ s = TXT_t3_medium => r = X86_64

C9_Witness ==
    /\ call.op = "detect_architecture"
    /\ call.args[1] = <<"a", "1", ".", "t">>
    /\ call.result = Some(ARM64)

----------------------------------------------------------------------------
(* Claims about the resolvers (SpecResolve) *)

\* What C10 says get_domain_for_service(service_name, env) returns on c.
ClaimedDomain(c, service_name, env) ==
    LET known == {i \in 1..Len(c.services) :
                      /\ c.services[i].name = service_name
                      /\ c.services[i].domain # None}
        given == {o \in Range(c.environment_overrides) :
                      /\ o.k = env
                      /\ \E d \in Range(o.v.domain_overrides) : d.k = service_name}
    IN  IF known = {} THEN None
        ELSE IF given # {}
        THEN Some((CHOOSE d \in Range((CHOOSE o \in given : TRUE).v.domain_overrides) :
                       d.k = service_name).v)
        ELSE IF env = "prod" THEN c.services[CHOOSE i \in known : TRUE].domain
        ELSE Some(NameChars(env) \o <<"-">>
                      \o c.services[CHOOSE i \in known : TRUE].domain[1])

C10_Result ==
    call.op = "get_domain_for_service" =>
        call.result = ClaimedDomain(config, call.args[1], call.args[2])

C10_ProjectKept == status = "valid" => config' = config

\* C10: get_domain_for_service returns none for an unknown service or one
\* without a base domain (override or not); otherwise the environment's
\* override for the service verbatim, "prod" included; otherwise the base
\* domain for "prod" and "<env>-<base domain>" for any other environment.
\* The call does not modify the project.
C10_GetDomainForService == []C10_Result /\ [][C10_ProjectKept]_vars

C10_Witness ==
    /\ call.op = "get_domain_for_service"
    /\ call.args = <<"web", "dev">>
    /\ DictGet(config.environment_overrides, "dev") = Some(EnvironmentOverride)
    /\ DictHas(config.environment_overrides, "prod")
    /\ call.result = Some(<<"d","e","v","-","a",".","i","o">>)

\* C11 as stated: get_rds_instance_type fails when no database is configured;
\* otherwise it returns the override's instance type whenever the entry for
\* env has one set, and the database's instance type in every other case.
C11_OverrideWheneverSet ==
    call.op = "get_rds_instance_type" =>
        LET env == call.args[1]
            overrides == DictGet(config.environment_overrides, env)
        IN  IF IsNone(config.rds) THEN call.result.raised = "ValueError"
            ELSE /\ call.result.raised = ""
                 /\ call.result.value =
                        IF /\ ~IsNone(overrides)
                           /\ ~IsNone(Val(overrides).instance_type_override)
                        THEN Val(Val(overrides).instance_type_override)
                        ELSE Val(config.rds).instance_type

\* C11 amended: get_rds_instance_type fails when no database is configured,
\* override or not; otherwise it returns the override's instance type when
\* the entry for env has a non-empty one, and the database's instance type in
\* every other case, an empty override included.
C11_NonEmptyOverride ==
    call.op = "get_rds_instance_type" =>
        LET env == call.args[1]
            given == {o \in Range(config.environment_overrides) :
                         /\ o.k = env
                         /\ o.v.instance_type_override # None
                         /\ o.v.instance_type_override # Some(TXT_empty)}
        IN  /\ config.rds = None <=> call.result.raised = "ValueError"
            /\ config.rds # None =>
                 /\ call.result.raised = ""
                 /\ \A o \in given :
                        call.result.value = Val(o.v.instance_type_override)
                 /\ given = {} => call.result.value = Val(config.rds).instance_type

\* A database is configured and the dev entry carries an instance type.
C11_Witness ==
    /\ call.op = "get_rds_instance_type"
    /\ call.args = <<"dev">>
    /\ config.rds # None
    /\ DictGet(config.environment_overrides, "dev") =
           Some([EnvironmentOverride EXCEPT
                    !.instance_type_override = Some(TXT_t3_medium)])
    /\ call.result = [raised |-> "", value |-> TXT_t3_medium]

----------------------------------------------------------------------------
(* Claims about the TOML round trip (SpecCodec) *)

\* C2: loading the text dump_config wrote for a validated project returns a
\* project equal to it in every field.
C2_RoundTrip ==
    loaded.state # "none" => loaded.state = "ok" /\ loaded.config = config

\* A text that cannot stand between double quotes as it is.
NeedsEscaping(text) == \E i \in 1..Len(text) : text[i] \in {QUOTE, BACKSLASH}

\* C21: every string field dump_config writes between double quotes
\* survives the round trip when it holds a backslash or a double quote: the
\* document parses and the parsed field equals the original.  Stated for the
\* project name and for the values of environment_variables.
C21_QuotedStringsEscaped ==
    loaded.state # "none" =>
        /\ NeedsEscaping(config.project_name) =>
               /\ loaded.state = "ok"
               /\ loaded.config.project_name = config.project_name
        /\ \A i \in 1..Len(config.services) :
               LET vars_i == config.services[i].environment_variables IN
               (\E j \in 1..Len(vars_i) : NeedsEscaping(vars_i[j].v)) =>
                   /\ loaded.state = "ok"
                   /\ loaded.config.services[i].environment_variables = vars_i

\* The lines of the i-th [[services]] element of a document, up to the next
\* table or array header.
OwnLines(doc, i) ==
    LET IsElement(j) == doc[j] = Array(<<"services">>)
        header == CHOOSE j \in 1..Len(doc) :
                      /\ IsElement(j)
                      /\ Cardinality({k \in 1..j : IsElement(k)}) = i
        later == {k \in (header + 1)..Len(doc) : doc[k].t \in {"table", "array"}}
        end == IF later = {} THEN Len(doc) + 1
               ELSE CHOOSE k \in later : \A m \in later : k <= m
    IN  {doc[k] : k \in (header + 1)..(end - 1)}

HasPortKey(lines) == \E l \in lines : l.t = "kv" /\ l.key = "port"

\* C22: the document has an [rds] table iff the project has a database; a
\* service without a port gets no port key but a comment line; and loading
\* the document, when it loads, gives a project without a database,
\* respectively a service whose port is None.
C22_OptionalSections ==
    ~IsNone(toml) =>
        LET doc == Val(toml) IN
        /\ (\E j \in 1..Len(doc) : doc[j] = Table(<<"rds">>)) <=> ~IsNone(config.rds)
        /\ \A i \in 1..Len(config.services) :
               IF IsNone(config.services[i].port)
               THEN /\ ~HasPortKey(OwnLines(doc, i))
                    /\ Comment \in OwnLines(doc, i)
               ELSE HasPortKey(OwnLines(doc, i))
        /\ loaded.state = "ok" =>
               /\ IsNone(loaded.config.rds) <=> IsNone(config.rds)
               /\ Len(loaded.config.services) = Len(config.services)
               /\ \A i \in 1..Len(config.services) :
                      IsNone(loaded.config.services[i].port)
                          <=> IsNone(config.services[i].port)

\* C22's case: a project without a database, with a background worker, was
\* written and read back.
C22_Witness ==
    /\ loaded.state = "ok"
    /\ IsNone(config.rds)
    /\ \E i \in 1..Len(config.services) : IsNone(config.services[i].port)

\* C25: an override with domain_overrides and an instance_type_override
\* and/or ec2_instance_type_override is read back, when the document loads,
\* with the same three fields.
C25_OverrideRoundTrip ==
    loaded.state = "ok" =>
        \A i \in 1..Len(config.environment_overrides) :
            LET o == config.environment_overrides[i].v IN
            (/\ Len(o.domain_overrides) > 0
             /\ \/ ~IsNone(o.instance_type_override)
                \/ Len(o.ec2_instance_type_override) > 0) =>
                /\ Len(loaded.config.environment_overrides) >= i
                /\ loaded.config.environment_overrides[i].k
                       = config.environment_overrides[i].k
                /\ loaded.config.environment_overrides[i].v = o

----------------------------------------------------------------------------
(* Claims about generation (SpecGenerate) *)

\* C3: every project that reaches generate_project satisfies the
\* construction invariants when generation starts, so nothing is created in
\* the output directory for a project that violates one.
C3_ValidatedBeforeEveryWrite ==
    /\ gen.state # "idle" => ValidFields(gen.config)
    /\ disk # {} => ValidFields(gen.config)

\* The paths generate_project writes for a project in a world.
Paths(c, w) ==
    {EmissionOrder(c, w)[i].path : i \in 1..Len(EmissionOrder(c, w))}

\* A call that returned, made on an empty output directory.
Generated == gen.state = "returned" /\ gen.fresh

ConstructsDir == {f \in disk : Len(f) = 3 /\ SubSeq(f, 1, 2) = P_constructs}

\* C12: after a run on an empty directory the constructs directory holds
\* rds_database.py iff the project has a database, s3_bucket.py iff it has a
\* bucket, cloudfront_distribution.py iff some bucket has the CDN flag, and
\* besides those only the index and the four constructs every project gets.
C12_ConditionalEmission ==
    Generated =>
        LET p == gen.config IN
        /\ Construct_py("rds_database.py") \in disk <=> p.rds # None
        /\ Construct_py("s3_bucket.py") \in disk <=> Len(p.s3_buckets) > 0
        /\ Construct_py("cloudfront_distribution.py") \in disk <=>
               \E b \in Range(p.s3_buckets) : b.cloudfront
        /\ ConstructsDir \subseteq
               {Construct_py(f) : f \in {"__init__.py", "ecr_repository.py",
                    "ecs_service.py", "alb.py", "secrets.py", "rds_database.py",
                    "s3_bucket.py", "cloudfront_distribution.py"}}

\* A database, a bucket without the CDN flag and an EC2 service.
C12_Witness ==
    /\ Generated
    /\ gen.config.rds # None
    /\ Len(gen.config.s3_buckets) = 1
    /\ ~gen.config.s3_buckets[1].cloudfront
    /\ \E svc \in Range(gen.config.services) : svc.launch_type = EC2
    /\ Construct_py("rds_database.py") \in disk
    /\ Construct_py("s3_bucket.py") \in disk
    /\ Construct_py("cloudfront_distribution.py") \notin disk

\* The project with a database added.
WithDatabase(p) == [p EXCEPT !.rds = Some(RdsConfig(TXT_db))]

\* C13 as stated: for a project without a database, the same project with a
\* database generates the same files plus the database construct, and
\* darth-infra.toml, common to both, has the same content.
C13_NoOtherContentChanged ==
    Generated /\ gen.config.rds = None =>
        LET p == gen.config IN
        /\ Construct_py("rds_database.py") \notin disk
        /\ Paths(WithDatabase(p), world) =
               disk \cup {Construct_py("rds_database.py")}
        /\ dump_config(WithDatabase(p)) = dump_config(p)

\* C13 amended: the same files plus the database construct are generated,
\* and darth-infra.toml changes: its text is the text for the project without
\* a database with one [rds] table inserted.
C13_OneMoreFileAndRdsTable ==
    Generated /\ gen.config.rds = None =>
        LET p == gen.config
            tp == dump_config(p)
            tq == dump_config(WithDatabase(p))
        IN  /\ Construct_py("rds_database.py") \notin disk
            /\ Paths(WithDatabase(p), world) =
                   disk \cup {Construct_py("rds_database.py")}
            /\ \E i \in 1..Len(tq) : \E j \in i..Len(tq) :
                   /\ tq[i] = Table(<<"rds">>)
                   /\ \A k \in (i + 1)..j : tq[k].t \in {"kv", "blank"}
                   /\ \E k \in (i + 1)..j : tq[k].t = "kv"
                   /\ tp = SubSeq(tq, 1, i - 1) \o SubSeq(tq, j + 1, Len(tq))

\* A project without a database, with a service, has been generated.
C13_Witness ==
    /\ Generated
    /\ gen.config.rds = None
    /\ Len(gen.config.services) > 0
    /\ <<"darth-infra.toml">> \in disk

CoreFiles ==
    { <<"app.py">>, <<"cdk.json">>, <<"pyproject.toml">>, <<"README.md">>,
      <<"darth-infra.toml">>, <<"darth-infra.schema.json">>,
      P_stacks \o <<"__init__.py">>, P_stacks \o <<"main_stack.py">>,
      Construct_py("__init__.py"), Construct_py("ecr_repository.py"),
      Construct_py("ecs_service.py"), Construct_py("alb.py"),
      Construct_py("secrets.py") }

\* C14: every run that returns leaves the nine core files and the four
\* always-present constructs in the output directory.
C14_CoreSetAlways == gen.state = "returned" => CoreFiles \subseteq disk

\* C15: a run on an empty directory that fails holds a prefix of the emission
\* order (up to the write that failed); a run that returns holds all of it.
C15_PrefixOnDisk ==
    gen.fresh =>
        LET order == EmissionOrder(gen.config, world) IN
        /\ gen.state = "failed" =>
               \E n \in {gen.pc - 1, gen.pc} :
                   disk = {order[i].path : i \in 1..n}
        /\ gen.state = "returned" => disk = Paths(gen.config, world)

\* After the failure nothing more is written by that call.
C15_NothingAfterFailure ==
    gen.state = "failed" /\ gen'.state = "failed" => disk' = disk

C15_FailFast == []C15_PrefixOnDisk /\ [][C15_NothingAfterFailure]_vars

\* The write of an always-present construct failed: the top-level files are
\* there, the database construct the project calls for is not.
C15_Witness ==
    /\ gen.state = "failed"
    /\ gen.fresh
    /\ gen.config.rds # None
    /\ <<"darth-infra.toml">> \in disk
    /\ Construct_py("ecr_repository.py") \in disk
    /\ Construct_py("secrets.py") \notin disk
    /\ Construct_py("rds_database.py") \notin disk

\* What generate_project reads besides the project.
Worlds == [schema : BOOLEAN, cwd : {{}, {P_boot}}]

\* C16: the paths a run on an empty directory produces are the same whatever
\* the working directory holds and whether or not the packaged schema exists.
C16_PathsDependOnProjectOnly ==
    Generated => \A w \in Worlds : Paths(gen.config, w) = disk

\* C17: after a run on an empty directory, a declared boot script whose source
\* is a file under the working directory is in the output directory at the
\* same relative path, with its parent directories; one whose source is
\* missing is not there; and a running call always has its next write.
C17_BootScripts ==
    /\ Generated =>
           \A svc \in Range(gen.config.services) :
               TruthyStr(svc.user_data_script) =>
                   LET script == Val(svc.user_data_script) IN
                   IF script \in world.cwd
                   THEN \A n \in 1..Len(script) : SubSeq(script, 1, n) \in disk
                   ELSE script \notin disk
    /\ gen.state = "running" =>
           gen.pc <= Len(EmissionOrder(gen.config, world))

\* One declared script was copied, another had no source and was skipped.
C17_Witness ==
    /\ Generated
    /\ \E svc \in Range(gen.config.services) : svc.user_data_script = Some(P_boot)
    /\ \E svc \in Range(gen.config.services) : svc.user_data_script = Some(P_init)
    /\ world.cwd = {P_boot}
    /\ P_boot \in disk
    /\ <<"scripts">> \in disk
    /\ P_init \notin disk

----------------------------------------------------------------------------
(* Claims about parsing (SpecParse) *)

\* The document load_config read, as tomllib returns it.
Doc == toml_load(Val(toml))

T_project == <<[n |-> "project", i |-> 0]>>
T_rds == <<[n |-> "rds", i |-> 0]>>
T_alb == <<[n |-> "alb", i |-> 0]>>
T_service == <<[n |-> "services", i |-> 1]>>
T_bucket == <<[n |-> "s3_buckets", i |-> 1]>>
T_secret == <<[n |-> "secrets", i |-> 1]>>

Declared(path) == \E i \in 1..Len(Doc.tables) : Doc.tables[i] = path

\* The keys written in a table.
Keys(path) ==
    {Doc.entries[i].key :
        i \in {j \in 1..Len(Doc.entries) : Doc.entries[j].path = path}}

\* What the claim says of every field but the service's port.
C18_OtherDefaults ==
    LET c == loaded.config IN
    /\ Keys(T_service) = {"name"} =>
          /\ c.services[1].dockerfile = TXT_Dockerfile
          /\ c.services[1].build_context = TXT_dot
          /\ c.services[1].health_check_path = TXT_health
          /\ c.services[1].cpu = 256
          /\ c.services[1].memory_mib = 512
          /\ c.services[1].desired_count = 1
          /\ c.services[1].enable_exec = TRUE
          /\ c.services[1].launch_type = FARGATE
          /\ c.services[1].enable_service_discovery = FALSE
    /\ Keys(T_project) = {"name"} =>
          /\ c.aws_region = TXT_us_east_1
          /\ c.environments = <<PROD>>
    /\ Keys(T_rds) = {"database_name"} =>
          /\ Val(c.rds).instance_type = TXT_t4g_micro
          /\ Val(c.rds).allocated_storage_gb = 20
          /\ Val(c.rds).engine_version = TXT_15
          /\ Val(c.rds).backup_retention_days = 7
    /\ ~Declared(T_alb) => c.alb.mode = SHARED
    /\ Keys(T_secret) = {"name"} =>
          /\ c.secrets[1].source = GENERATE
          /\ c.secrets[1].length = 50
          /\ c.secrets[1].generate_once = TRUE

\* C18 as stated: a service entry with only a name is given port 8000 and the
\* other listed defaults; absent project, database, load-balancer and secret
\* fields get theirs.
C18_PortDefaults8000 ==
    loaded.state = "ok" =>
        /\ C18_OtherDefaults
        /\ Keys(T_service) = {"name"} => loaded.config.services[1].port = Some(8000)

\* C18 amended: a service entry with only a name has no port (None), and the
\* other listed defaults; absent project, database, load-balancer and secret
\* fields get theirs.
C18_PortDefaultsNone ==
    loaded.state = "ok" =>
        /\ C18_OtherDefaults
        /\ Keys(T_service) = {"name"} => loaded.config.services[1].port = None

\* A document whose project, service, database and secret give only the
\* required field, and that has no [alb] table, was loaded.
C18_Witness ==
    /\ loaded.state = "ok"
    /\ Keys(T_project) = {"name"}
    /\ Keys(T_service) = {"name"}
    /\ Keys(T_rds) = {"database_name"}
    /\ Keys(T_secret) = {"name"}
    /\ ~Declared(T_alb)
    /\ loaded.config.services[1].port = None

\* C19: a document that lacks project.name, a service's name, the database
\* section's database_name (an empty [rds] section included), a bucket's
\* name or a secret's name fails to load.
C19_MissingRequiredFails ==
    /\ loaded.state # "none"
    /\ \/ "name" \notin Keys(T_project)
       \/ Declared(T_service) /\ "name" \notin Keys(T_service)
       \/ Declared(T_rds) /\ "database_name" \notin Keys(T_rds)
       \/ Declared(T_bucket) /\ "name" \notin Keys(T_bucket)
       \/ Declared(T_secret) /\ "name" \notin Keys(T_secret)
    => loaded.state = "error"

\* The value written for a key of a table.
Written(path, key) ==
    {Doc.entries[i].v :
        i \in {j \in 1..Len(Doc.entries) :
                  Doc.entries[j].path = path /\ Doc.entries[j].key = key}}

\* C20: a launch type, architecture, secret source or load-balancer mode that
\* is written and is not one of the enum's values, the empty string
\* included, fails the load.
C20_EnumsClosed ==
    /\ loaded.state # "none"
    /\ \/ Written(T_service, "launch_type") \ {FARGATE, EC2} # {}
       \/ Written(T_service, "architecture") \ {X86_64, ARM64} # {}
       \/ Written(T_secret, "source") \ {GENERATE, ENV} # {}
       \/ Written(T_alb, "mode") \ {SHARED, DEDICATED} # {}
    => loaded.state = "error"

----------------------------------------------------------------------------
(* Claims about find_config (SpecFind) *)

\* The directories from start up to the root that hold the config file.
Holders == {dir \in 0..finder.start : finder.entries[dir] = "file"}

\* The walk goes from start towards the root and has passed no holder.
C23_NearestOrNotFound ==
    /\ finder.state = "walking" =>
           /\ finder.current <= finder.start
           /\ \A dir \in Holders : dir <= finder.current
    /\ finder.state = "returned" =>
           /\ finder.result \in Holders
           /\ \A dir \in Holders : dir <= finder.result
    /\ finder.state = "raised" => Holders = {}

\* C23: find_config(start) terminates; it inspects start, then each parent
\* in turn; it returns the config file of the nearest directory that holds
\* one, and raises FileNotFoundError exactly when no directory from start
\* up to the root holds one.
C23_FindConfig ==
    /\ []C23_NearestOrNotFound
    /\ finder.state = "walking" ~> finder.state \in {"returned", "raised"}
    /\ [](finder.state = "walking" /\ Holders = {} => <>(finder.state = "raised"))

\* C23's case: the walk passed a directory without the file and a directory
\* whose darth-infra.toml is not a file, and returned the nearest holder
\* although a farther one exists.
C23_Witness ==
    /\ finder.state = "returned"
    /\ finder.result < finder.start
    /\ \E dir \in (finder.result + 1)..finder.start : finder.entries[dir] = "dir"
    /\ \E dir \in Holders : dir < finder.result

----------------------------------------------------------------------------
(* Claims about the wizard (SpecWizard) *)

\* C24: on both services screens, every service of the shared draft that
\* has a port has a domain, whatever was added, selected, updated or removed.
C24_PortNeedsDomain ==
    wizard.state # "none" =>
        \A i \in 1..Len(wizard.draft.services) :
            ~IsNone(wizard.draft.services[i].port)
                => TruthyStr(wizard.draft.services[i].domain)

DraftKeys == {"services", "s3_buckets", "secrets"}

\* The editing index of every list screen is None or an index of its list.
C30_IndexValid ==
    wizard.state # "none" =>
        \A key \in DraftKeys :
            \/ IsNone(wizard.editing[key])
            \/ Val(wizard.editing[key]) \in 0..(Len(wizard.draft[key]) - 1)

\* What one button press does to the draft and to the editing index.
C30_Press ==
    LET op == wizard'.last.op
        done == wizard'.last.done
        key == ListKey(wizard.screen)
        old == wizard.draft[key]
        new == wizard'.draft[key]
        index == Val(wizard.editing[key]) + 1
        Untouched == wizard'.draft = wizard.draft /\ wizard'.editing = wizard.editing
        OthersKept == \A k \in DraftKeys \ {key} : wizard'.draft[k] = wizard.draft[k]
    IN  /\ wizard.screen \notin ListScreens => wizard'.draft = wizard.draft
        /\ wizard.screen \in ListScreens =>
            /\ op = "add" /\ done =>
                  /\ Len(new) = Len(old) + 1 /\ SubSeq(new, 1, Len(old)) = old
                  /\ OthersKept /\ IsNone(wizard'.editing[key])
            /\ op = "add" /\ ~done => Untouched
            /\ op = "save" /\ done =>
                  /\ ~IsNone(wizard.editing[key])
                  /\ Len(new) = Len(old)
                  /\ \A j \in 1..Len(old) : j # index => new[j] = old[j]
                  /\ OthersKept /\ IsNone(wizard'.editing[key])
            /\ op = "remove" /\ done =>
                  /\ ~IsNone(wizard.editing[key])
                  /\ Len(new) = Len(old) - 1
                  /\ \A j \in 1..Len(new) : new[j] = IF j < index THEN old[j] ELSE old[j + 1]
                  /\ OthersKept /\ IsNone(wizard'.editing[key])
            /\ op \in {"save", "remove"} /\ IsNone(wizard.editing[key]) => ~done
            /\ op \in {"save", "remove"} /\ ~done => Untouched
            /\ op \in {"select", "back"} => wizard'.draft = wizard.draft
            /\ wizard.screen = "services" /\ wizard'.screen = "rds" =>
                  Len(wizard'.draft.services) >= 1

\* C30: on the services, buckets and secrets screens the editing index is
\* None or a valid index of its draft list; Update and Remove change exactly
\* the selected entry and do nothing when none is selected; a successful
\* Add, Update or Remove returns the screen to add mode; Next on the
\* services screen advances only with at least one service in the draft.
C30_ListEditing == []C30_IndexValid /\ [][C30_Press]_vars

\* C30's case: an entry of a list of several was updated while another list
\* of the draft held entries too.
C30_Witness ==
    /\ wizard.state = "running"
    /\ wizard.last = [op |-> "save", done |-> TRUE]
    /\ wizard.screen = "services"
    /\ Len(wizard.draft.services) >= 2
    /\ Len(wizard.draft.s3_buckets) >= 1

----------------------------------------------------------------------------
(* Claims about the deploy and destroy commands (SpecDeploy) *)

\* What the last deploy command did.
C27_Guarded ==
    cloud.state = "ready" /\ cloud.last.cmd = "deploy" =>
        /\ cloud.last.invoked =>
               /\ cloud.last.env \in Range(config.environments)
               /\ cloud.last.env # PROD => cloud.last.observed
        /\ ~cloud.last.invoked => cloud.last.exit # 0

\* The prod stack a deploy observed did exist when the command ran, and the
\* command left the configuration as it was.
C27_ObservedBefore ==
    /\ (/\ cloud'.last.cmd = "deploy"
        /\ cloud'.last.invoked
        /\ cloud'.last.env # PROD) => PROD \in cloud.stacks
    /\ config' = config

\* C27: deploy runs the deployment tool for environment e only if e is one
\* of the configuration's environments and, for e other than prod, only if
\* the prod stack was observed to exist beforehand; otherwise it exits with
\* a non-zero status without running the tool.  The configuration is never
\* modified.
C27_DeployGuard == []C27_Guarded /\ [][C27_ObservedBefore]_vars

\* C27's case: a non-prod environment was deployed after prod was observed.
C27_Witness ==
    /\ cloud.state = "ready"
    /\ cloud.last.cmd = "deploy"
    /\ cloud.last.invoked
    /\ cloud.last.env = "dev"
    /\ cloud.last.observed
    /\ "dev" \in cloud.stacks

\* C28: over any sequence of deploy and destroy commands, whenever the
\* stack of a non-prod environment exists the prod stack exists too.
C28_ProdFirstProdLast ==
    cloud.state = "ready" =>
        (cloud.stacks \ {PROD} # {} => PROD \in cloud.stacks)

----------------------------------------------------------------------------
(* Claims about regeneration (SpecRegenerate) *)

ConditionalConstructs ==
    {Construct_py("rds_database.py"), Construct_py("s3_bucket.py"),
     Construct_py("cloudfront_distribution.py")}

\* C29: after any sequence of successful runs into one output directory,
\* the conditional construct files present are exactly those the project of
\* the most recent run is gated on.
C29_OnlyLatestConstructs ==
    gen.state = "returned" =>
        disk \cap ConditionalConstructs
            = {OptionalConstructs(gen.config)[i].path :
                   i \in 1..Len(OptionalConstructs(gen.config))}

----------------------------------------------------------------------------
(* Claims about concurrent generation (SpecRace) *)

\* C26: concurrent generation takes no lock: a running call can always
\* make its next write, whatever the other call is doing, and every
\* rendered file comes from a call that has written it, so the writes of
\* the two calls interleave (C26_Witness is the mixed final directory).
C26_NoLock ==
    race.state = "ready" =>
        LET written == [p \in {1, 2} |->
                LET order == EmissionOrder(RaceProjects[p], race.world) IN
                {order[i].path : i \in 2..(race.procs[p].pc - 1)}]
        IN  /\ \A p \in {1, 2} :
                   race.procs[p].state = "running" => ENABLED RaceStep(p)
            /\ \A f \in race.files : f.by # 0 => f.path \in written[f.by]

\* C26's case: both calls have returned, and the directory holds
\* darth-infra.toml written from one project and a construct written from
\* the other.
C26_Witness ==
    /\ race.state = "ready"
    /\ race.procs[1].state = "returned"
    /\ race.procs[2].state = "returned"
    /\ [path |-> <<"darth-infra.toml">>, by |-> 1] \in race.files
    /\ [path |-> Construct_py("alb.py"), by |-> 2] \in race.files

====
